---------------------------- MODULE Spec2Model ----------------------------
(***************************************************************************)
(* The versioned DMP document store of dmptool-utils (the DynamoDB helper   *)
(* with explicit connection parameters, src/src/rds.ts lines 202-1363).     *)
(*                                                                          *)
(* The table is a set of items; an item is a function from attribute names  *)
(* to values and always carries the key attributes PK and SK.  The adapter  *)
(* (DynamoDBClient) is modelled as a consistent key-value table: a put      *)
(* replaces the item with the same (PK, SK), a delete removes the one item  *)
(* with the given (PK, SK), a query returns the items of one partition that *)
(* match the sort-key condition.  In the first specifications a store call  *)
(* runs to its end before the next one starts; in the last one (SpecSteps)  *)
(* the calls of several callers go on together, one adapter command at a    *)
(* time.  Two more specifications take up a query answered in pages         *)
(* (SpecPaged) and the variant of the store that is configured from the     *)
(* environment, src/src/rds.ts from line 1427 (SpecEnv).                    *)
(*                                                                          *)
(* Timestamps are strings, as in the code.  The clock counts milliseconds   *)
(* and moves in steps of one hour.                                          *)
(***************************************************************************)
EXTENDS Integers, Sequences, FiniteSets, TLC

VARIABLES
    table,   \* the DynamoDB table: a set of items
    now,     \* Date.now(), in milliseconds
    ret,     \* the last store call: its arguments and its outcome
    calls,   \* the number of store calls made
    replica, \* the table as a query with ConsistentRead: false finds it
    running  \* the store calls under way, one per caller, command by command

vars == <<table, now, ret, calls, replica, running>>

----------------------------------------------------------------------------
(* Bounds of the model *)

\* the clock runs from one hour to MaxTick hours
MaxTick == 4

\* incoming documents carry a modified timestamp of at most MaxModified hours
MaxModified == 2

\* a run makes at most MaxCalls store calls
MaxCalls == 2

----------------------------------------------------------------------------
(* Constants of the program *)

DMP_PK_PREFIX == "DMP"
DMP_VERSION_PREFIX == "VERSION"
DMP_EXTENSION_PREFIX == "EXTENSION"
DMP_LATEST_VERSION == "latest"
DMP_TOMBSTONE_VERSION == "tombstone"

EXTENSION_KEYS ==
    { "featured", "funding_opportunity", "funding_project", "narrative",
      "provenance", "privacy", "rda_schema_version", "registered",
      "research_domain", "research_facility", "status", "tombstoned",
      "version" }

\* the default of updateDMP's gracePeriodInMS
DEFAULT_GRACE_PERIOD == 7200000

\* one step of the clock, in milliseconds
ONE_HOUR == 3600000

----------------------------------------------------------------------------
(* Time: Date.prototype.toISOString, Date.prototype.getTime and the order   *)
(* of timestamp strings                                                     *)

ClockValues == { k * ONE_HOUR : k \in 1..9 }

\* the text of each instant
TimestampOfTime ==
    [ ms \in ClockValues |-> "2025-01-15T0" \o ToString(ms \div ONE_HOUR) \o ":00:00.000Z" ]

\* new Date(ms).toISOString()
toISOString(ms) == TimestampOfTime[ms]

Timestamps == { toISOString(ms) : ms \in ClockValues }

\* the instant of each timestamp string
TimeOfTimestamp == [ s \in Timestamps |-> CHOOSE ms \in ClockValues : toISOString(ms) = s ]

\* new Date(s).getTime()
getTime(s) == TimeOfTimestamp[s]

\* a > b on two timestamp strings of the same format: the order of the
\* strings is the order of the instants
StringGreater(a, b) == getTime(a) > getTime(b)

----------------------------------------------------------------------------
(* Strings of identifiers.  A DMP ID is a sequence of tokens, so that the   *)
(* regular expressions of the code can be applied to it: a scheme token     *)
(* ("https:"), the token "//", and the rest.                                *)

SchemeTokens == { "https:", "http:" }

\* the identifiers the callers use
DmpIds == { <<"https:", "//", "doi.org/11.12345/A1B2C3">> }

RECURSIVE Join(_)
Join(tokens) == IF tokens = <<>> THEN "" ELSE Head(tokens) \o Join(Tail(tokens))

\* dmpId.replace(/(^\w+:|^)\/\//, '')
stripProtocolAndSlashes(dmpId) ==
    IF Len(dmpId) >= 2 /\ dmpId[1] \in SchemeTokens /\ dmpId[2] = "//"
    THEN SubSeq(dmpId, 3, Len(dmpId))
    ELSE IF Len(dmpId) >= 1 /\ dmpId[1] = "//"
         THEN Tail(dmpId)
         ELSE dmpId

\* dmpId.replace(/^https?:\/\//, '')
dmpIdWithoutProtocol(dmpId) ==
    IF Len(dmpId) >= 2 /\ dmpId[1] \in {"https:", "http:"} /\ dmpId[2] = "//"
    THEN SubSeq(dmpId, 3, Len(dmpId))
    ELSE dmpId

\* the version tokens a sort key can carry
VersionTokens == { DMP_LATEST_VERSION, DMP_TOMBSTONE_VERSION } \cup Timestamps

\* `${DMP_PK_PREFIX}#${id}`
pkOf(dmpId) == DMP_PK_PREFIX \o "#" \o Join(stripProtocolAndSlashes(dmpId))

\* `${DMP_VERSION_PREFIX}#${version}`
skOf(version) == DMP_VERSION_PREFIX \o "#" \o version

\* `${DMP_EXTENSION_PREFIX}#${version}`
extensionSKOf(version) == DMP_EXTENSION_PREFIX \o "#" \o version

\* the keys of the identifiers and version tokens of the model
PKOfDmpId == [ id \in DmpIds |-> pkOf(id) ]

SKOfVersion == [ v \in VersionTokens |-> skOf(v) ]

ExtensionSKOfVersion == [ v \in VersionTokens |-> extensionSKOf(v) ]

dmpIdToPK(dmpId) == PKOfDmpId[dmpId]

versionToSK(version) == SKOfVersion[version]

versionToExtensionSK(version) == ExtensionSKOfVersion[version]

\* the sort keys of the key scheme, by prefix
VersionSKs == { versionToSK(v) : v \in VersionTokens }

ExtensionSKs == { versionToExtensionSK(v) : v \in VersionTokens }

\* begins_with(SK, prefix) for the two prefixes the code queries by
beginsWith(sk, prefix) ==
    IF prefix = DMP_VERSION_PREFIX THEN sk \in VersionSKs
    ELSE IF prefix = DMP_EXTENSION_PREFIX THEN sk \in ExtensionSKs
    ELSE FALSE

\* the version token each sort key carries
VersionOfVersionSK == [ sk \in VersionSKs |-> CHOOSE v \in VersionTokens : sk = versionToSK(v) ]

VersionOfExtensionSK ==
    [ sk \in ExtensionSKs |-> CHOOSE v \in VersionTokens : sk = versionToExtensionSK(v) ]

\* item.SK.replace(`${DMP_VERSION_PREFIX}#`, '')
versionOfSK(sk) == IF sk \in VersionSKs THEN VersionOfVersionSK[sk] ELSE sk

----------------------------------------------------------------------------
(* Documents: functions from attribute names to values *)

pick(obj, keys) == [ k \in (DOMAIN obj) \cap keys |-> obj[k] ]

\* { ...a, ...b }: the attributes of both, b winning
spread(a, b) ==
    [ k \in (DOMAIN a) \cup (DOMAIN b) |-> IF k \in DOMAIN b THEN b[k] ELSE a[k] ]

\* obj.key, truthy: present (every value of the model is a non-empty string,
\* a non-empty list or a timestamp)
has(obj, key) == key \in DOMAIN obj

\* a variant of the extension split with a list that lacks the version index
dmptoolExtensionWithoutVersion(innerMetadata) ==
    pick(innerMetadata, EXTENSION_KEYS \ {"version"})

\* pick(innerMetadata, [...EXTENSION_KEYS])
dmptoolExtensionOf(innerMetadata) == pick(innerMetadata, EXTENSION_KEYS)

\* a variant of the core split that also filters out the modified timestamp
rdaCommonStandardWithoutModified(innerMetadata) ==
    pick(innerMetadata, (DOMAIN innerMetadata) \ (EXTENSION_KEYS \cup {"modified"}))

\* pick(innerMetadata, Object.keys(innerMetadata).filter(k => !EXTENSION_KEYS.includes(k)))
rdaCommonStandardOf(innerMetadata) ==
    pick(innerMetadata, (DOMAIN innerMetadata) \ EXTENSION_KEYS)

\* the two documents an incoming document is stored as
split(innerMetadata) ==
    <<rdaCommonStandardOf(innerMetadata), dmptoolExtensionOf(innerMetadata)>>

\* { ...version, ...extensions[0] }
merge(version, extension) == spread(version, extension)

----------------------------------------------------------------------------
(* The adapter: PutItemCommand, DeleteItemCommand, QueryCommand *)

\* a variant of putItem that leaves the item it should replace
putItemBeside(t, item) == t \cup { item }

\* a variant of PutItem that leaves a stored item with a later modified value
\* in place
putItemIfNewer(t, item) ==
    IF \E i \in t : /\ <<i.PK, i.SK>> = <<item.PK, item.SK>>
                     /\ "modified" \in DOMAIN i /\ "modified" \in DOMAIN item
                     /\ getTime(i.modified) > getTime(item.modified)
    THEN t
    ELSE { i \in t : <<i.PK, i.SK>> # <<item.PK, item.SK>> } \cup {item}

\* PutItemCommand replaces the item that has the key of the new one
putItem(t, item) ==
    { i \in t : ~(i.PK = item.PK /\ i.SK = item.SK) } \cup { item }

\* the table's primary key is the pair PK, SK: every KeyConditionExpression
\* of the store names both
primaryKeyOf(item) == pick(item, {"PK", "SK"})

\* a variant of the delete that removes every item of the key's partition
deleteItemsOfPartition(t, key) == { i \in t : i.PK # key.PK }

\* DeleteItemCommand removes the one item that has the given primary key
deleteItem(t, key) == { i \in t : primaryKeyOf(i) # key }

\* the service refuses a DeleteItemCommand whose Key is not a whole primary
\* key, and send() throws
deleteItemThrows(key) == DOMAIN key # {"PK", "SK"}

\* KeyConditionExpression "PK = :pk AND SK = :sk"
queryExact(t, pk, sk) == { i \in t : i.PK = pk /\ i.SK = sk }

\* KeyConditionExpression "PK = :pk AND begins_with(SK, :sk)"
queryPrefix(t, pk, prefix) == { i \in t : i.PK = pk /\ beginsWith(i.SK, prefix) }

domainName == "example.com"

\* unmarshalled.PK.replace(`${DMP_PK_PREFIX}#`, 'https://')
DmpIdOfPK ==
    [ pk \in { DMP_PK_PREFIX \o "#" \o Join(stripProtocolAndSlashes(id)) : id \in DmpIds } |->
        "https://" \o (CHOOSE rest \in { Join(stripProtocolAndSlashes(id)) : id \in DmpIds } :
                           DMP_PK_PREFIX \o "#" \o rest = pk) ]

pkToDmpId(pk) == DmpIdOfPK[pk]

----------------------------------------------------------------------------
(* Orders.  String.prototype.localeCompare on sort keys puts the timestamps *)
(* (digits) before "latest" before "tombstone"; on modified values it is    *)
(* the order of the instants.                                               *)

versionRank(v) ==
    IF v = DMP_TOMBSTONE_VERSION THEN 11
    ELSE IF v = DMP_LATEST_VERSION THEN 10
    ELSE getTime(v) \div ONE_HOUR

RankOfSK ==
    [ sk \in VersionSKs \cup ExtensionSKs |->
        versionRank(IF sk \in VersionSKs THEN VersionOfVersionSK[sk]
                    ELSE VersionOfExtensionSK[sk]) ]

skRank(sk) == RankOfSK[sk]

\* the items of S as a sequence ascending by key, a function from S to
\* distinct integers
RECURSIVE sortItems(_, _)
sortItems(S, key) ==
    IF S = {} THEN <<>>
    ELSE LET least == CHOOSE x \in S : \A y \in S : key[x] <= key[y]
         IN  <<least>> \o sortItems(S \ {least}, key)

\* items.sort((a, b) => b.SK.localeCompare(a.SK)): descending by sort key
descendingSK(S) == sortItems(S, [ i \in S |-> 0 - skRank(i.SK) ])

\* a variant of the sort of the versions, ascending by modified
ascendingModified(S) ==
    sortItems(S, [ i \in S |-> skRank(i.SK) + 100 * (getTime(i.modified) \div ONE_HOUR) ])

\* versions.sort((a, b) => b.modified.localeCompare(a.modified)): descending
\* by modified; the sort is stable and the query delivers the items ascending
\* by sort key, so equal modified values stay in that order
descendingModified(S) ==
    sortItems(S, [ i \in S |-> skRank(i.SK) - 100 * (getTime(i.modified) \div ONE_HOUR) ])

\* const { PK, SK, ...rest } = item
withoutKeys(item) == pick(item, (DOMAIN item) \ {"PK", "SK"})

----------------------------------------------------------------------------
(* Reads *)

\* a variant of DMPExists that probes the tombstone key
DMPExistsTombstone(t, dmpId) ==
    queryExact(t, dmpIdToPK(dmpId), versionToSK(DMP_TOMBSTONE_VERSION)) # {}

DMPExists(t, dmpId) ==
    queryExact(t, dmpIdToPK(dmpId), versionToSK(DMP_LATEST_VERSION)) # {}

\* versions.push({ dmpId, modified }) for the items that carry PK, SK and modified
versionEntry(item) == [ dmpId |-> pkToDmpId(item.PK), modified |-> item.modified ]

\* the versions of the items kept, in their sorted order
versionEntries(items) == [ k \in 1..Len(items) |-> versionEntry(items[k]) ]

getDMPVersions(t, dmpId) ==
    versionEntries(
        descendingModified({ i \in queryPrefix(t, dmpIdToPK(dmpId), DMP_VERSION_PREFIX) :
                               has(i, "PK") /\ has(i, "SK") /\ has(i, "modified") }))

\* `${accessURLBase}${dmpIdWithoutProtocol}${queryParam}`, with the modified
\* value of the query parameter, "" for none
accessUrlOf(dmpId, modified) ==
    "https://" \o domainName \o "/dmps/" \o Join(dmpIdWithoutProtocol(dmpId))
        \o (IF modified = "" THEN "" ELSE "?version=" \o modified)

AccessUrl == [ id \in DmpIds, m \in Timestamps \cup {""} |-> accessUrlOf(id, m) ]

\* a variant of the version index with the query parameter on every entry
versionIndexAllWithQuery(versions, dmpId) ==
    [ idx \in 1..Len(versions) |->
        [ access_url |-> AccessUrl[dmpId, versions[idx].modified],
          version |-> versions[idx].modified ] ]

\* the version index attached to an extension record on read
versionIndex(versions, dmpId) ==
    [ idx \in 1..Len(versions) |->
        [ access_url |-> AccessUrl[dmpId, IF idx = 1 THEN "" ELSE versions[idx].modified],
          version |-> versions[idx].modified ] ]

\* an extension item as getDMPExtensions returns it: without its keys, with
\* the version index when there are versions
coerceExtension(item, versions, dmpId) ==
    IF Len(versions) > 0
    THEN spread(withoutKeys(item), [ version |-> versionIndex(versions, dmpId) ])
    ELSE withoutKeys(item)

\* items.map over the sorted extension items
coerceExtensions(items, versions, dmpId) ==
    [ k \in 1..Len(items) |-> coerceExtension(items[k], versions, dmpId) ]

\* a variant of getDMPExtensions that reads the extension of the latest
\* version whatever the version asked for
getDMPExtensionsOfLatest(t, dmpId, version) ==
    coerceExtensions(
        descendingSK(queryExact(t, dmpIdToPK(dmpId), versionToExtensionSK(DMP_LATEST_VERSION))),
        getDMPVersions(t, dmpId), dmpId)

getDMPExtensions(t, dmpId, version) ==
    coerceExtensions(
        descendingSK(queryExact(t, dmpIdToPK(dmpId), versionToExtensionSK(version))),
        getDMPVersions(t, dmpId), dmpId)

\* a variant of the merge that returns a version without an extension as
\* the item stored, with its keys
mergeExtensionsKeysKept(item, extensions) ==
    IF Len(extensions) > 0
    THEN spread(withoutKeys(item), extensions[1])
    ELSE item

\* { dmp: { ...version, ...extensions[0] } }, or { dmp: version } without extensions
mergeExtensions(item, extensions) ==
    IF Len(extensions) > 0
    THEN spread(withoutKeys(item), extensions[1])
    ELSE withoutKeys(item)

\* one item of a getDMPs result
resultOf(t, dmpId, item, includeExtensions) ==
    IF includeExtensions
    THEN mergeExtensions(item, getDMPExtensions(t, dmpId, versionOfSK(item.SK)))
    ELSE item

\* items.map over the sorted version items
resultsOf(t, dmpId, items, includeExtensions) ==
    [ k \in 1..Len(items) |-> resultOf(t, dmpId, items[k], includeExtensions) ]

\* version is a version token, or "" for every version
getDMPs(t, dmpId, version, includeExtensions) ==
    resultsOf(t, dmpId,
              descendingSK(IF version # ""
                           THEN queryExact(t, dmpIdToPK(dmpId), versionToSK(version))
                           ELSE queryPrefix(t, dmpIdToPK(dmpId), DMP_VERSION_PREFIX)),
              includeExtensions)

----------------------------------------------------------------------------
(* Writes.  Each returns the table it leaves, the message of the            *)
(* DMPToolDynamoError it throws ("" when it returns normally) and the       *)
(* document it returns (a list of at most one document: the [0] of a        *)
(* getDMPs result, which is undefined when the list is empty).              *)

\* class DMPToolDynamoError extends Error: the one class of everything the
\* store throws, with its name and the message it was made with
DMPToolDynamoError(message) == [ name |-> "DMPToolDynamoError", message |-> message ]

first(seq) == IF Len(seq) > 0 THEN <<seq[1]>> ELSE <<>>

\* a call that throws: the table is as it was
thrown(t, message) == [ table |-> t, error |-> message, value |-> <<>> ]

\* a call that returns the [0] of getDMPs for a version of the table it leaves
returned(t, dmpId, version, includeExtensions) ==
    [ table |-> t, error |-> "",
      value |-> first(getDMPs(t, dmpId, version, includeExtensions)) ]

createDMPExtensions(t, dmpId, dmp, version) ==
    putItem(t, spread(dmp, [ PK |-> dmpIdToPK(dmpId),
                             SK |-> versionToExtensionSK(version) ]))

\* a variant of createDMP's check that tests every version but the latest
createDMPConflictInverted(t, dmpId, version) ==
    version # DMP_LATEST_VERSION /\ DMPExists(t, dmpId)

\* createDMP's check before it writes
createDMPConflict(t, dmpId, version) ==
    version = DMP_LATEST_VERSION /\ DMPExists(t, dmpId)

\* createDMP's first write: the RDA Common Standard item
putVersionItem(t, dmpId, rdaCommonStandard, version) ==
    putItem(t, spread(rdaCommonStandard, [ PK |-> dmpIdToPK(dmpId),
                                           SK |-> versionToSK(version) ]))

\* the version createDMP re-reads for its return value
createDMPReturnVersion(version) == DMP_LATEST_VERSION

createDMP(t, dmpId, dmp, version, includeExtensions) ==
    IF createDMPConflict(t, dmpId, version)
    THEN thrown(t, "Latest version already exists")
    ELSE returned(createDMPExtensions(
                      putVersionItem(t, dmpId, rdaCommonStandardOf(dmp), version),
                      dmpId, dmptoolExtensionOf(dmp), version),
                  dmpId, createDMPReturnVersion(version), includeExtensions)

updateDMPExtensions(t, dmpId, dmp) ==
    putItem(t, spread(dmp, [ PK |-> dmpIdToPK(dmpId),
                             SK |-> versionToExtensionSK(DMP_LATEST_VERSION) ]))

\* a variant of updateDMP's bail-out condition that also turns away an
\* incoming modified equal to the latest's
cannotUpdateNotNewer(latest, innerMetadata) ==
    \/ latest = <<>>
    \/ has(latest[1], "tombstoned")
    \/ ~StringGreater(innerMetadata.modified, latest[1].modified)

\* a variant of updateDMP's bail-out condition that does not look at the
\* tombstoned timestamp
cannotUpdateTombstonedUnchecked(latest, innerMetadata) ==
    \/ latest = <<>>
    \/ StringGreater(latest[1].modified, innerMetadata.modified)

\* a variant of updateDMP's bail-out condition that does not compare the
\* modified values
cannotUpdateModifiedUnchecked(latest, innerMetadata) ==
    \/ latest = <<>>
    \/ has(latest[1], "tombstoned")

\* updateDMP's bail-out condition; latest is the [0] of getDMPs
cannotUpdate(latest, innerMetadata) ==
    \/ latest = <<>>
    \/ has(latest[1], "tombstoned")
    \/ StringGreater(latest[1].modified, innerMetadata.modified)

\* the default of the parameter: gracePeriodInMS = 7200000; the argument is a
\* list, empty when the caller passes none
gracePeriodInMSOf(arg) == IF arg = <<>> THEN DEFAULT_GRACE_PERIOD ELSE arg[1]

\* gracePeriodInMS ? Number(gracePeriodInMS) : 7200000
gracePeriodOf(gracePeriodInMS) ==
    IF gracePeriodInMS # 0 THEN gracePeriodInMS ELSE DEFAULT_GRACE_PERIOD

needToVersion(dmptoolExtension, latestDmp, nowMs, gracePeriod) ==
    \/ pick(dmptoolExtension, {"provenance"}) # pick(latestDmp, {"provenance"})
    \/ (nowMs - getTime(latestDmp.modified)) > gracePeriod

\* a variant of updateDMP's snapshot step that puts the RDA Common Standard
\* item of the version and no extension item
snapshotLatestCoreOnly(t, dmpId, latestDmp, versionNeeded) ==
    IF versionNeeded
    THEN putVersionItem(t, dmpId, rdaCommonStandardOf(latestDmp), latestDmp.modified)
    ELSE t

\* the table after updateDMP's snapshot step: createDMP(latest.dmp,
\* latest.dmp.modified) when a version is needed
snapshotLatest(t, dmpId, latestDmp, versionNeeded) ==
    IF versionNeeded
    THEN createDMP(t, dmpId, latestDmp, latestDmp.modified, TRUE).table
    ELSE t

\* updateDMP's two writes of the latest items
putLatest(t, dmpId, dmp) ==
    updateDMPExtensions(
        putItem(t, spread(rdaCommonStandardOf(dmp),
                          [ PK |-> dmpIdToPK(dmpId),
                            SK |-> versionToSK(DMP_LATEST_VERSION) ])),
        dmpId, dmptoolExtensionOf(dmp))

\* updateDMP from the latest it fetched
updateDMPFrom(t, nowMs, dmpId, dmp, gracePeriodArg, includeExtensions, latest) ==
    IF cannotUpdate(latest, dmp)
    THEN thrown(t, "Cannot update a historical DMP")
    ELSE returned(
             putLatest(
                 snapshotLatest(t, dmpId, latest[1],
                                needToVersion(dmptoolExtensionOf(dmp), latest[1], nowMs,
                                              gracePeriodOf(gracePeriodInMSOf(gracePeriodArg)))),
                 dmpId, dmp),
             dmpId, DMP_LATEST_VERSION, includeExtensions)

updateDMP(t, nowMs, dmpId, dmp, gracePeriodArg, includeExtensions) ==
    updateDMPFrom(t, nowMs, dmpId, dmp, gracePeriodArg, includeExtensions,
                  first(getDMPs(t, dmpId, DMP_LATEST_VERSION, TRUE)))

\* a variant of tombstoneDMPExtensions that puts the tombstone's extension
\* item and leaves the latest's
tombstoneDMPExtensionsPutOnly(t, nowMs, dmpId, dmp) ==
    putItem(t, spread(dmp, [ PK |-> dmpIdToPK(dmpId),
                             SK |-> versionToExtensionSK(DMP_TOMBSTONE_VERSION),
                             tombstoned |-> toISOString(nowMs) ]))

tombstoneDMPExtensions(t, nowMs, dmpId, dmp) ==
    deleteItem(
        putItem(t, spread(dmp, [ PK |-> dmpIdToPK(dmpId),
                                 SK |-> versionToExtensionSK(DMP_TOMBSTONE_VERSION),
                                 tombstoned |-> toISOString(nowMs) ])),
        [ PK |-> dmpIdToPK(dmpId), SK |-> versionToExtensionSK(DMP_LATEST_VERSION) ])

\* a variant of tombstoneDMP's check that lets every latest through
canTombstoneUnchecked(dmp) == has(dmp, "title")

\* tombstoneDMP goes on to write: the latest it found is registered
canTombstone(dmp) == has(dmp, "registered")

\* a variant of the tombstone's item that keeps the title as it was
tombstoneVersionItemTitleKept(dmpId, dmp, nowMs) ==
    spread(rdaCommonStandardOf(dmp),
           [ PK |-> dmpIdToPK(dmpId),
             SK |-> versionToSK(DMP_TOMBSTONE_VERSION),
             modified |-> toISOString(nowMs) ])

\* the tombstone's RDA Common Standard item
tombstoneVersionItem(dmpId, dmp, nowMs) ==
    spread(rdaCommonStandardOf(dmp),
           [ PK |-> dmpIdToPK(dmpId),
             SK |-> versionToSK(DMP_TOMBSTONE_VERSION),
             title |-> "OBSOLETE: " \o dmp.title,
             modified |-> toISOString(nowMs) ])

\* tombstoneDMP's writes: put the tombstone item, delete the latest item,
\* then the same for the extensions
tombstoneWrites(t, nowMs, dmpId, dmp) ==
    tombstoneDMPExtensions(
        deleteItem(putItem(t, tombstoneVersionItem(dmpId, dmp, nowMs)),
                   [ PK |-> dmpIdToPK(dmpId), SK |-> versionToSK(DMP_LATEST_VERSION) ]),
        nowMs, dmpId, dmptoolExtensionOf(dmp))

\* tombstoneDMP from the latest it fetched
tombstoneDMPFrom(t, nowMs, dmpId, includeExtensions, dmp) ==
    IF dmp = <<>>
    THEN thrown(t, "Unable to find DMP")
    ELSE IF ~canTombstone(dmp[1])
    THEN thrown(t, "Unable to tombstone DMP because it is not registered/published")
    ELSE returned(tombstoneWrites(t, nowMs, dmpId, dmp[1]),
                  dmpId, DMP_TOMBSTONE_VERSION, includeExtensions)

tombstoneDMP(t, nowMs, dmpId, includeExtensions) ==
    tombstoneDMPFrom(t, nowMs, dmpId, includeExtensions,
                     first(getDMPs(t, dmpId, DMP_LATEST_VERSION, TRUE)))

\* deleteDMP goes on to delete: the latest is not registered
canDelete(latest) == ~has(latest, "registered")

\* the Key of deleteDMP's one DeleteItemCommand: the partition key alone
deleteDMPKey(dmpId) == [ PK |-> dmpIdToPK(dmpId) ]

\* deleteDMP from the list it fetched
deleteDMPFrom(t, dmpId, includeExtensions, dmps) ==
    IF Len(dmps) = 0
    THEN thrown(t, "Unable to find id")
    ELSE IF ~canDelete(dmps[1])
    THEN thrown(t, "Unable to delete because it does not exist or is registered")
    ELSE IF deleteItemThrows(deleteDMPKey(dmpId))
    THEN thrown(t, "Unable to delete id")
    ELSE [ table |-> deleteItem(t, deleteDMPKey(dmpId)), error |-> "",
           value |-> IF includeExtensions
                     THEN <<dmps[1]>>
                     ELSE <<rdaCommonStandardOf(dmps[1])>> ]

deleteDMP(t, dmpId, includeExtensions) ==
    deleteDMPFrom(t, dmpId, includeExtensions,
                  getDMPs(t, dmpId, DMP_LATEST_VERSION, TRUE))

----------------------------------------------------------------------------
(* The callers' inputs *)

NoAttributes == [ k \in {} |-> "" ]

ModifiedValues == { toISOString(k * ONE_HOUR) : k \in 1..MaxModified }

Provenances == { "dmptool", "tester" }

\* documents: title, modified and provenance, with or without a registered
\* timestamp; and one document that carries a tombstoned timestamp
Documents ==
    { spread(spread([ title |-> "Test DMP", modified |-> m, provenance |-> p ], r), x) :
        m \in ModifiedValues, p \in Provenances,
        r \in { NoAttributes, [ registered |-> toISOString(ONE_HOUR) ] },
        x \in { NoAttributes } }
    \cup { [ title |-> "Test DMP", modified |-> toISOString(ONE_HOUR),
             provenance |-> "dmptool", registered |-> toISOString(ONE_HOUR),
             tombstoned |-> toISOString(ONE_HOUR) ] }

\* the versions createDMP is called with: the latest, or a timestamp
CreateVersions == { DMP_LATEST_VERSION } \cup ModifiedValues

\* the grace periods updateDMP is called with: none, zero, one hour
GracePeriodArgs == { <<>>, <<0>>, <<ONE_HOUR>> }

\* includeExtensions: the callers of this specification leave it at its
\* default, true
IncludeExtensionsArgs == { TRUE }

----------------------------------------------------------------------------
(* The state machine: one store call at a time, and the clock *)

NoCall ==
    [ op |-> "none", dmpId |-> <<>>, dmp |-> <<>>, version |-> "",
      gracePeriodArg |-> <<>>, includeExtensions |-> TRUE,
      error |-> "", value |-> <<>> ]

\* the callers that may have a store call under way together
MaxCallers == 2

Callers == 1..MaxCallers

\* a caller with no store call under way.  pc names the adapter command the
\* call sends next; stack holds what the function under way returns to;
\* items, extensions and latest are the locals of the code; sent is the list
\* of the commands sent; failed tells that a command was rejected
NotRunning ==
    [ op |-> "none", pc |-> "idle", stack |-> <<>>,
      dmpId |-> <<>>, dmp |-> <<>>, version |-> "", gracePeriodArg |-> <<>>,
      includeExtensions |-> TRUE,
      createDmp |-> <<>>, createVersion |-> "", getVersion |-> "", getInclude |-> TRUE,
      items |-> <<>>, extensions |-> <<>>, latest |-> <<>>, chains |-> <<>>,
      sent |-> <<>>, failed |-> FALSE, error |-> "", value |-> <<>> ]

Init ==
    /\ table = {}
    /\ now = ONE_HOUR
    /\ ret = NoCall
    /\ calls = 0
    /\ replica = {}
    /\ running = [ c \in Callers |-> NotRunning ]

CallCreateDMP(dmpId, dmp, version, includeExtensions) ==
    \E r \in { createDMP(table, dmpId, dmp, version, includeExtensions) } :
        /\ table' = r.table
        /\ ret' = [ NoCall EXCEPT !.op = "createDMP", !.dmpId = dmpId, !.dmp = <<dmp>>,
                                  !.version = version,
                                  !.includeExtensions = includeExtensions,
                                  !.error = r.error, !.value = r.value ]
        /\ calls' = calls + 1
        /\ UNCHANGED now

CallUpdateDMP(dmpId, dmp, gracePeriodArg, includeExtensions) ==
    \E r \in { updateDMP(table, now, dmpId, dmp, gracePeriodArg, includeExtensions) } :
        /\ table' = r.table
        /\ ret' = [ NoCall EXCEPT !.op = "updateDMP", !.dmpId = dmpId, !.dmp = <<dmp>>,
                                  !.version = DMP_LATEST_VERSION,
                                  !.gracePeriodArg = gracePeriodArg,
                                  !.includeExtensions = includeExtensions,
                                  !.error = r.error, !.value = r.value ]
        /\ calls' = calls + 1
        /\ UNCHANGED now

CallTombstoneDMP(dmpId, includeExtensions) ==
    \E r \in { tombstoneDMP(table, now, dmpId, includeExtensions) } :
        /\ table' = r.table
        /\ ret' = [ NoCall EXCEPT !.op = "tombstoneDMP", !.dmpId = dmpId,
                                  !.version = DMP_TOMBSTONE_VERSION,
                                  !.includeExtensions = includeExtensions,
                                  !.error = r.error, !.value = r.value ]
        /\ calls' = calls + 1
        /\ UNCHANGED now

CallDeleteDMP(dmpId, includeExtensions) ==
    \E r \in { deleteDMP(table, dmpId, includeExtensions) } :
        /\ table' = r.table
        /\ ret' = [ NoCall EXCEPT !.op = "deleteDMP", !.dmpId = dmpId,
                                  !.version = DMP_LATEST_VERSION,
                                  !.includeExtensions = includeExtensions,
                                  !.error = r.error, !.value = r.value ]
        /\ calls' = calls + 1
        /\ UNCHANGED now

Tick ==
    /\ now < MaxTick * ONE_HOUR
    /\ now' = now + ONE_HOUR
    /\ UNCHANGED <<table, ret, calls, replica, running>>

\* one store call, by any caller, with any input, in a run of at most
\* bound calls; the queries of the calls that follow find what it wrote
Create(bound) ==
    /\ calls < bound
    /\ \E dmpId \in DmpIds, dmp \in Documents, version \in CreateVersions,
          includeExtensions \in IncludeExtensionsArgs :
            CallCreateDMP(dmpId, dmp, version, includeExtensions)
    /\ replica' = table'
    /\ UNCHANGED running

Update(bound) ==
    /\ calls < bound
    /\ \E dmpId \in DmpIds, dmp \in Documents, gracePeriodArg \in GracePeriodArgs,
          includeExtensions \in IncludeExtensionsArgs :
            CallUpdateDMP(dmpId, dmp, gracePeriodArg, includeExtensions)
    /\ replica' = table'
    /\ UNCHANGED running

Tombstone(bound) ==
    /\ calls < bound
    /\ \E dmpId \in DmpIds, includeExtensions \in IncludeExtensionsArgs :
            CallTombstoneDMP(dmpId, includeExtensions)
    /\ replica' = table'
    /\ UNCHANGED running

Delete(bound) ==
    /\ calls < bound
    /\ \E dmpId \in DmpIds, includeExtensions \in IncludeExtensionsArgs :
            CallDeleteDMP(dmpId, includeExtensions)
    /\ replica' = table'
    /\ UNCHANGED running

Next ==
    \/ Create(MaxCalls)
    \/ Update(MaxCalls)
    \/ Tombstone(MaxCalls)
    \/ Delete(MaxCalls)
    \/ Tick

Spec == Init /\ [][Next]_vars

\* the same machine with one more store call in a run
NextDeep ==
    \/ Create(MaxCalls + 1)
    \/ Update(MaxCalls + 1)
    \/ Tombstone(MaxCalls + 1)
    \/ Delete(MaxCalls + 1)
    \/ Tick

SpecDeep == Init /\ [][NextDeep]_vars

----------------------------------------------------------------------------
(* Eventually consistent reads.  queryTable sends every QueryCommand with   *)
(* ConsistentRead: false: the query is answered from a replica that may not *)
(* yet hold a write that has completed.  In this machine a create leaves    *)
(* the replica behind, Propagate brings it up to the table, and DMPExists   *)
(* is a call of its own that queries the replica.  The queries createDMP    *)
(* makes itself are taken to find the table as it is.                       *)

\* the boolean it returns is the one attribute of the value recorded
CallDMPExists(dmpId) ==
    /\ ret' = [ NoCall EXCEPT !.op = "DMPExists", !.dmpId = dmpId,
                              !.version = DMP_LATEST_VERSION,
                              !.value = <<[ exists |-> DMPExists(replica, dmpId) ]>> ]
    /\ calls' = calls + 1
    /\ UNCHANGED <<table, now, replica, running>>

\* a createDMP call whose writes the replica has yet to receive
CreateAhead(bound) ==
    /\ calls < bound
    /\ \E dmpId \in DmpIds, dmp \in Documents, version \in CreateVersions,
          includeExtensions \in IncludeExtensionsArgs :
            CallCreateDMP(dmpId, dmp, version, includeExtensions)
    /\ UNCHANGED <<replica, running>>

\* a DMPExists call
Exists(bound) ==
    /\ calls < bound
    /\ \E dmpId \in DmpIds : CallDMPExists(dmpId)

\* the replica receives the writes it lacks
Propagate ==
    /\ replica # table
    /\ replica' = table
    /\ UNCHANGED <<table, now, ret, calls, running>>

NextEventual ==
    \/ CreateAhead(MaxCalls)
    \/ Exists(MaxCalls + 1)
    \/ Propagate
    \/ Tick

SpecEventual == Init /\ [][NextEventual]_vars

----------------------------------------------------------------------------
(* The reads, called by themselves after the store calls of a run.          *)

\* the version argument of getDMPs: a version token, or "" (null) for all
ReadVersions == {""} \cup VersionTokens

CallGetDMPVersions(dmpId) ==
    /\ ret' = [ NoCall EXCEPT !.op = "getDMPVersions", !.dmpId = dmpId,
                              !.value = getDMPVersions(table, dmpId) ]
    /\ calls' = calls + 1
    /\ UNCHANGED <<table, now, replica, running>>

CallGetDMPs(dmpId, version, includeExtensions) ==
    /\ ret' = [ NoCall EXCEPT !.op = "getDMPs", !.dmpId = dmpId, !.version = version,
                              !.includeExtensions = includeExtensions,
                              !.value = getDMPs(table, dmpId, version, includeExtensions) ]
    /\ calls' = calls + 1
    /\ UNCHANGED <<table, now, replica, running>>

Versions(bound) ==
    /\ calls < bound
    /\ \E dmpId \in DmpIds : CallGetDMPVersions(dmpId)

Get(bound) ==
    /\ calls < bound
    /\ \E dmpId \in DmpIds, version \in ReadVersions, includeExtensions \in BOOLEAN :
            CallGetDMPs(dmpId, version, includeExtensions)

\* a run of store calls, and then one read
NextReads ==
    \/ Create(MaxCalls)
    \/ Update(MaxCalls)
    \/ Tombstone(MaxCalls)
    \/ Delete(MaxCalls)
    \/ Versions(MaxCalls + 1)
    \/ Get(MaxCalls + 1)
    \/ Tick

SpecReads == Init /\ [][NextReads]_vars

----------------------------------------------------------------------------
(* A store call that stops between its writes: the PutItem of the extension *)
(* item is rejected (or the process ends) after the core item was written.  *)

\* createDMP when the putItem of createDMPExtensions throws: the catch wraps
\* what was thrown in `Unable to create DMP id: ...`
createDMPStopped(t, dmpId, dmp, version) ==
    IF createDMPConflict(t, dmpId, version)
    THEN thrown(t, "Latest version already exists")
    ELSE thrown(putVersionItem(t, dmpId, rdaCommonStandardOf(dmp), version),
                "Unable to create DMP id")

CallCreateDMPStopped(dmpId, dmp, version) ==
    \E r \in { createDMPStopped(table, dmpId, dmp, version) } :
        /\ table' = r.table
        /\ ret' = [ NoCall EXCEPT !.op = "createDMP", !.dmpId = dmpId, !.dmp = <<dmp>>,
                                  !.version = version,
                                  !.error = r.error, !.value = r.value ]
        /\ calls' = calls + 1
        /\ UNCHANGED now

CreateStopped(bound) ==
    /\ calls < bound
    /\ \E dmpId \in DmpIds, dmp \in Documents, version \in CreateVersions :
            CallCreateDMPStopped(dmpId, dmp, version)
    /\ replica' = table'
    /\ UNCHANGED running

\* a run of store calls, any create of which may stop, and then one read
NextStopped ==
    \/ Create(MaxCalls)
    \/ CreateStopped(MaxCalls)
    \/ Update(MaxCalls)
    \/ Tombstone(MaxCalls)
    \/ Delete(MaxCalls)
    \/ Get(MaxCalls + 1)
    \/ Tick

SpecStopped == Init /\ [][NextStopped]_vars

----------------------------------------------------------------------------
(* The split of a document, on its own: any document of at most MaxFields   *)
(* top-level fields, with names on and off the list of extension keys.      *)

MaxFields == 2

\* names of RDA Common Standard fields
StandardFieldNames == { "title", "created", "modified", "dmp_id" }

SplitDocuments ==
    { [ k \in names |-> "x" ] :
        names \in { n \in SUBSET (StandardFieldNames \cup EXTENSION_KEYS) :
                       Cardinality(n) <= MaxFields } }

\* the value recorded is the pair the split returns
CallSplit(dmp) ==
    /\ ret' = [ NoCall EXCEPT !.op = "split", !.dmp = <<dmp>>, !.value = split(dmp) ]
    /\ calls' = calls + 1
    /\ UNCHANGED <<table, now, replica, running>>

Split(bound) ==
    /\ calls < bound
    /\ \E dmp \in SplitDocuments : CallSplit(dmp)

NextSplit == Split(MaxCalls)

SpecSplit == Init /\ [][NextSplit]_vars

----------------------------------------------------------------------------
(* The key codec, on its own.  A partition key is kept as its tokens (the   *)
(* prefix, "#", and the rest) so that the replacement that decodes it can   *)
(* be applied to it.                                                        *)

\* `${DMP_PK_PREFIX}#${id}`
pkTokensOf(dmpId) == <<DMP_PK_PREFIX, "#">> \o stripProtocolAndSlashes(dmpId)

\* PK.replace(`${DMP_PK_PREFIX}#`, 'https://')
dmpIdOfPKTokens(pk) ==
    IF Len(pk) >= 2 /\ pk[1] = DMP_PK_PREFIX /\ pk[2] = "#"
    THEN <<"https:", "//">> \o SubSeq(pk, 3, Len(pk))
    ELSE pk

\* identifiers without their scheme
BareIds ==
    { host \o "/" \o shoulder \o "/" \o suffix :
        host \in { "doi.org", "dx.doi.org", "example.com" },
        shoulder \in { "11.12345", "10.48321" },
        suffix \in { "A1B2C3", "D4E5F6", "G7H8I9" } }

\* the forms a caller writes an identifier in: with a scheme, with the two
\* slashes only, and bare
CodecIds ==
    { <<scheme, "//", bare>> : scheme \in SchemeTokens, bare \in BareIds }
        \cup { <<"//", bare>> : bare \in BareIds }
        \cup { <<bare>> : bare \in BareIds }

\* the value recorded is the key of the identifier and what the key decodes to
CallCodec(dmpId) ==
    /\ ret' = [ NoCall EXCEPT !.op = "dmpIdToPK", !.dmpId = dmpId,
                              !.value = <<[ PK |-> pkTokensOf(dmpId),
                                            dmpId |-> dmpIdOfPKTokens(pkTokensOf(dmpId)) ]>> ]
    /\ calls' = calls + 1
    /\ UNCHANGED <<table, now, replica, running>>

Codec(bound) ==
    /\ calls < bound
    /\ \E dmpId \in CodecIds : CallCodec(dmpId)

NextCodec == Codec(MaxCalls)

SpecCodec == Init /\ [][NextCodec]_vars

----------------------------------------------------------------------------
(* The store calls, one adapter command at a time.  A call sends a command  *)
(* (dynamoDBClient.send) and awaits its answer; pc names the command it     *)
(* awaits.  A step is the answer to one command: the command takes effect   *)
(* on the table, then the code runs on to the next command it sends, or to  *)
(* its return or throw.                                                     *)

\* dynamoDBClient.send(command): the call awaits the answer at pc
sending(proc, pc, command, sk) ==
    [ proc EXCEPT !.pc = pc, !.sent = Append(@, [ command |-> command, SK |-> sk ]) ]

\* throw new DMPToolDynamoError(message), for a reason of the store's own
throws(proc, message) == [ proc EXCEPT !.pc = "done", !.error = message ]

\* a rejected command, caught and thrown on as one DMPToolDynamoError
rejected(proc, message) ==
    [ proc EXCEPT !.pc = "done", !.error = message, !.failed = TRUE ]

\* return value
returns(proc, value) == [ proc EXCEPT !.pc = "done", !.value = value ]

\* await getDMPs(..., version, includeExtensions): the query for the core items
callGetDMPs(proc, version, includeExtensions, then) ==
    sending([ proc EXCEPT !.getVersion = version, !.getInclude = includeExtensions,
                          !.stack = <<then>> \o @ ],
            "getDMPs", "Query",
            IF version # "" THEN versionToSK(version) ELSE DMP_VERSION_PREFIX)

\* createDMP putting the extension item of a version without its core item
\* first
enterCreateDMPExtensionsFirst(proc, dmp, version) ==
    IF version = DMP_LATEST_VERSION
    THEN sending([ proc EXCEPT !.createDmp = <<dmp>>, !.createVersion = version ],
                 "DMPExists", "Query", versionToSK(DMP_LATEST_VERSION))
    ELSE sending([ proc EXCEPT !.createDmp = <<dmp>>, !.createVersion = version ],
                 "createDMPExtensions", "PutItem", versionToExtensionSK(version))

\* createDMP past its check: the putItem of the core item
enterCreateDMP(proc, dmp, version) ==
    IF version = DMP_LATEST_VERSION
    THEN sending([ proc EXCEPT !.createDmp = <<dmp>>, !.createVersion = version ],
                 "DMPExists", "Query", versionToSK(DMP_LATEST_VERSION))
    ELSE sending([ proc EXCEPT !.createDmp = <<dmp>>, !.createVersion = version ],
                 "putVersionItem", "PutItem", versionToSK(version))

\* updateDMP sending the put of the latest item before it looks at the
\* latest it fetched
updateDMPWithPutBeforeCheck(proc, latest, nowMs) ==
    IF cannotUpdate(latest, proc.dmp[1])
    THEN throws(sending(proc, "putLatest", "PutItem", versionToSK(DMP_LATEST_VERSION)),
                "Cannot update a historical DMP")
    ELSE sending([ proc EXCEPT !.latest = latest ],
                 "putLatest", "PutItem", versionToSK(DMP_LATEST_VERSION))

\* updateDMP putting the latest items without the snapshot before them
updateDMPWithoutSnapshot(proc, latest, nowMs) ==
    IF cannotUpdate(latest, proc.dmp[1])
    THEN throws(proc, "Cannot update a historical DMP")
    ELSE sending([ proc EXCEPT !.latest = latest ],
                 "putLatest", "PutItem", versionToSK(DMP_LATEST_VERSION))

\* updateDMP with the latest it fetched
updateDMPWith(proc, latest, nowMs) ==
    IF cannotUpdate(latest, proc.dmp[1])
    THEN throws(proc, "Cannot update a historical DMP")
    ELSE IF needToVersion(dmptoolExtensionOf(proc.dmp[1]), latest[1], nowMs,
                          gracePeriodOf(gracePeriodInMSOf(proc.gracePeriodArg)))
    THEN enterCreateDMP([ proc EXCEPT !.latest = latest, !.stack = <<"updateDMP.snapshot">> ],
                       latest[1], latest[1].modified)
    ELSE sending([ proc EXCEPT !.latest = latest ],
                 "putLatest", "PutItem", versionToSK(DMP_LATEST_VERSION))

\* tombstoneDMP starting with the delete of the latest core item
tombstoneDMPWithDeleteFirst(proc, dmp) ==
    IF dmp = <<>>
    THEN throws(proc, "Unable to find DMP")
    ELSE IF ~canTombstone(dmp[1])
    THEN throws(proc, "Unable to tombstone DMP because it is not registered/published")
    ELSE sending([ proc EXCEPT !.latest = dmp ],
                 "deleteLatest", "DeleteItem", versionToSK(DMP_LATEST_VERSION))

\* tombstoneDMP with the latest it fetched
tombstoneDMPWith(proc, dmp) ==
    IF dmp = <<>>
    THEN throws(proc, "Unable to find DMP")
    ELSE IF ~canTombstone(dmp[1])
    THEN throws(proc, "Unable to tombstone DMP because it is not registered/published")
    ELSE sending([ proc EXCEPT !.latest = dmp ],
                 "putTombstone", "PutItem", versionToSK(DMP_TOMBSTONE_VERSION))

\* deleteDMP with the list it fetched
deleteDMPWith(proc, dmps) ==
    IF Len(dmps) = 0
    THEN throws(proc, "Unable to find id")
    ELSE IF ~canDelete(dmps[1])
    THEN throws(proc, "Unable to delete because it does not exist or is registered")
    ELSE sending([ proc EXCEPT !.latest = first(dmps) ], "deleteItem", "DeleteItem", "")

\* the code after an await getDMPs(...) that resolved with a list; then is
\* the function that awaited it
afterGetDMPs(proc, got, nowMs, then) ==
    IF then = "getDMPs" THEN returns(proc, got)
    ELSE IF then = "createDMP"
    THEN IF proc.stack = <<>>
         THEN returns(proc, first(got))
         ELSE sending([ proc EXCEPT !.stack = <<>> ],
                      "putLatest", "PutItem", versionToSK(DMP_LATEST_VERSION))
    ELSE IF then = "updateDMP.latest" THEN updateDMPWith(proc, first(got), nowMs)
    ELSE IF then = "tombstoneDMP.latest" THEN tombstoneDMPWith(proc, first(got))
    ELSE IF then = "deleteDMP.latest" THEN deleteDMPWith(proc, got)
    ELSE returns(proc, first(got))

\* getDMPs when its last answer is in: it returns the list to its caller
resolveGetDMPs(proc, got, nowMs) ==
    afterGetDMPs([ proc EXCEPT !.stack = Tail(@), !.items = <<>>, !.chains = <<>> ],
                 got, nowMs, Head(proc.stack))

\* items.map(async (item) => ...): each callback sends the query of
\* getDMPExtensions for its item before any answer is in
RECURSIVE sendingEach(_, _, _)
sendingEach(proc, items, k) ==
    IF k > Len(items) THEN proc
    ELSE sendingEach(sending(proc, "Promise.all", "Query",
                             versionToExtensionSK(versionOfSK(items[k].SK))),
                     items, k + 1)

\* getDMPs with the answer to its query
getDMPsWith(proc, items, nowMs) ==
    IF Len(items) = 0 THEN resolveGetDMPs(proc, <<>>, nowMs)
    ELSE IF ~proc.getInclude THEN resolveGetDMPs(proc, items, nowMs)
    ELSE sendingEach([ proc EXCEPT !.items = items,
                                   !.chains = [ k \in 1..Len(items) |->
                                                  [ pc |-> "getDMPExtensions", item |-> items[k],
                                                    extensions |-> <<>>, value |-> <<>> ] ] ],
                     items, 1)

\* the item createDMP, updateDMP or tombstoneDMP puts or deletes at a step
versionItemOf(proc, dmp, version) ==
    spread(rdaCommonStandardOf(dmp), [ PK |-> dmpIdToPK(proc.dmpId), SK |-> versionToSK(version) ])

extensionItemOf(proc, dmp, version) ==
    spread(dmptoolExtensionOf(dmp),
           [ PK |-> dmpIdToPK(proc.dmpId), SK |-> versionToExtensionSK(version) ])

\* the table after the command awaited at pc took effect
tableAfter(proc, t, nowMs) ==
    IF proc.pc = "putVersionItem"
    THEN putItem(t, versionItemOf(proc, proc.createDmp[1], proc.createVersion))
    ELSE IF proc.pc = "createDMPExtensions"
    THEN putItem(t, extensionItemOf(proc, proc.createDmp[1], proc.createVersion))
    ELSE IF proc.pc = "putLatest"
    THEN putItem(t, versionItemOf(proc, proc.dmp[1], DMP_LATEST_VERSION))
    ELSE IF proc.pc = "updateDMPExtensions"
    THEN putItem(t, extensionItemOf(proc, proc.dmp[1], DMP_LATEST_VERSION))
    ELSE IF proc.pc = "putTombstone"
    THEN putItem(t, tombstoneVersionItem(proc.dmpId, proc.latest[1], nowMs))
    ELSE IF proc.pc = "deleteLatest"
    THEN deleteItem(t, [ PK |-> dmpIdToPK(proc.dmpId), SK |-> versionToSK(DMP_LATEST_VERSION) ])
    ELSE IF proc.pc = "putTombstoneExtensions"
    THEN putItem(t, spread(extensionItemOf(proc, proc.latest[1], DMP_TOMBSTONE_VERSION),
                           [ tombstoned |-> toISOString(nowMs) ]))
    ELSE IF proc.pc = "deleteLatestExtensions"
    THEN deleteItem(t, [ PK |-> dmpIdToPK(proc.dmpId),
                         SK |-> versionToExtensionSK(DMP_LATEST_VERSION) ])
    ELSE t

\* the code that runs when the command awaited at pc is answered, up to the
\* next command it sends; t is the table the command left
answered(proc, t, nowMs) ==
    IF proc.pc = "DMPExists"
    THEN IF DMPExists(t, proc.dmpId)
         THEN throws(proc, "Latest version already exists")
         ELSE sending(proc, "putVersionItem", "PutItem", versionToSK(proc.createVersion))
    ELSE IF proc.pc = "putVersionItem"
    THEN sending(proc, "createDMPExtensions", "PutItem", versionToExtensionSK(proc.createVersion))
    ELSE IF proc.pc = "createDMPExtensions"
    THEN callGetDMPs([ proc EXCEPT !.stack = IF proc.op = "createDMP" THEN <<>> ELSE @ ],
                     DMP_LATEST_VERSION,
                     IF proc.op = "createDMP" THEN proc.includeExtensions ELSE TRUE,
                     "createDMP")
    ELSE IF proc.pc = "getDMPs"
    THEN getDMPsWith(proc,
                     descendingSK(IF proc.getVersion # ""
                                  THEN queryExact(t, dmpIdToPK(proc.dmpId),
                                                  versionToSK(proc.getVersion))
                                  ELSE queryPrefix(t, dmpIdToPK(proc.dmpId), DMP_VERSION_PREFIX)),
                     nowMs)
    ELSE IF proc.pc = "putLatest"
    THEN sending(proc, "updateDMPExtensions", "PutItem", versionToExtensionSK(DMP_LATEST_VERSION))
    ELSE IF proc.pc = "updateDMPExtensions"
    THEN callGetDMPs(proc, DMP_LATEST_VERSION, proc.includeExtensions, "updateDMP")
    ELSE IF proc.pc = "putTombstone"
    THEN sending(proc, "deleteLatest", "DeleteItem", versionToSK(DMP_LATEST_VERSION))
    ELSE IF proc.pc = "deleteLatest"
    THEN sending(proc, "putTombstoneExtensions", "PutItem",
                 versionToExtensionSK(DMP_TOMBSTONE_VERSION))
    ELSE IF proc.pc = "putTombstoneExtensions"
    THEN sending(proc, "deleteLatestExtensions", "DeleteItem",
                 versionToExtensionSK(DMP_LATEST_VERSION))
    ELSE IF proc.pc = "deleteLatestExtensions"
    THEN callGetDMPs(proc, DMP_TOMBSTONE_VERSION, proc.includeExtensions, "tombstoneDMP")
    ELSE proc

\* the message of the DMPToolDynamoError thrown when the command awaited at
\* pc is rejected: that of the innermost catch around it
rejectionMessage(pc) ==
    IF pc = "DMPExists" THEN "Unable to check if DMP exists id"
    ELSE IF pc \in { "getDMPs", "Promise.all" } THEN "Unable to fetch DMP id"
    ELSE IF pc \in { "putVersionItem", "createDMPExtensions" } THEN "Unable to create DMP id"
    ELSE IF pc \in { "putLatest", "updateDMPExtensions" } THEN "Unable to update DMP id"
    ELSE IF pc = "deleteItem" THEN "Unable to delete id"
    ELSE "Unable to tombstone id"

\* one callback of items.map when its query is answered from table t.  The
\* query of getDMPExtensions: the extension items found, or the item alone
\* when there are none; the query of getDMPVersions: the merged document
chainAnswered(proc, chain, t) ==
    IF chain.pc = "getDMPVersions"
    THEN [ chain EXCEPT !.pc = "done",
                        !.value = <<mergeExtensions(chain.item,
                                        coerceExtensions(chain.extensions,
                                                         getDMPVersions(t, proc.dmpId),
                                                         proc.dmpId))>> ]
    ELSE IF queryExact(t, dmpIdToPK(proc.dmpId),
                       versionToExtensionSK(versionOfSK(chain.item.SK))) = {}
    THEN [ chain EXCEPT !.pc = "done", !.value = <<withoutKeys(chain.item)>> ]
    ELSE [ chain EXCEPT !.pc = "getDMPVersions",
                        !.extensions =
                            descendingSK(queryExact(t, dmpIdToPK(proc.dmpId),
                                             versionToExtensionSK(versionOfSK(chain.item.SK)))) ]

\* the call after a callback went on: the callback sends the query of
\* getDMPVersions when it found an extension; Promise.all resolves when the
\* last callback is done, and the call is still awaiting it
promiseAll(proc, nowMs, k) ==
    IF proc.chains[k].pc = "getDMPVersions"
    THEN [ proc EXCEPT !.sent = Append(@, [ command |-> "Query", SK |-> DMP_VERSION_PREFIX ]) ]
    ELSE IF proc.pc = "Promise.all" /\ \A j \in 1..Len(proc.chains) : proc.chains[j].pc = "done"
    THEN resolveGetDMPs(proc, [ j \in 1..Len(proc.chains) |-> proc.chains[j].value[1] ], nowMs)
    ELSE proc

\* Promise.all rejects with the first rejection, and getDMPs' catch throws;
\* the other callbacks are not told
promiseAllRejected(proc, k) ==
    IF proc.pc = "Promise.all"
    THEN rejected([ proc EXCEPT !.chains[k].pc = "rejected" ], rejectionMessage("Promise.all"))
    ELSE [ proc EXCEPT !.chains[k].pc = "rejected" ]

\* the commands a call awaits one at a time
AwaitedCommands ==
    { "DMPExists", "putVersionItem", "createDMPExtensions", "getDMPs", "putLatest",
      "updateDMPExtensions", "putTombstone", "deleteLatest", "putTombstoneExtensions",
      "deleteLatestExtensions", "deleteItem" }

\* the calls of a run that may have a command rejected
MaxRejected == 1

\* the documents and the tables of this specification: registered documents
\* of either provenance and modified value, and an unregistered one; the
\* tables are the empty one, those a createDMP leaves, and those an
\* updateDMP with a snapshot leaves after it
StepDocuments ==
    { d \in Documents : "tombstoned" \notin DOMAIN d
                          /\ ("registered" \in DOMAIN d
                                \/ (d.provenance = "dmptool" /\ d.modified = toISOString(ONE_HOUR))) }

StartTables ==
    LET created ==
            { createDMP({}, dmpId, dmp, DMP_LATEST_VERSION, TRUE).table :
                dmpId \in DmpIds,
                dmp \in { d \in StepDocuments : d.modified = toISOString(ONE_HOUR) } }
    IN  { {} } \cup created
            \cup { updateDMP(t, MaxTick * ONE_HOUR, dmpId, dmp, <<>>, TRUE).table :
                     t \in created, dmpId \in DmpIds,
                     dmp \in { d \in StepDocuments : d.modified # toISOString(ONE_HOUR) } }

InitSteps ==
    /\ table \in StartTables
    /\ now = MaxTick * ONE_HOUR
    /\ ret = NoCall
    /\ calls = 0
    /\ replica = {}
    /\ running = [ c \in Callers |-> NotRunning ]

\* a caller calls the store
called(op, dmpId, dmp, version, includeExtensions) ==
    [ NotRunning EXCEPT !.op = op, !.dmpId = dmpId, !.dmp = dmp, !.version = version,
                        !.includeExtensions = includeExtensions ]

BeginCreate(c) ==
    /\ running[c].pc = "idle"
    /\ \E dmpId \in DmpIds, dmp \in StepDocuments :
           running' = [ running EXCEPT ![c] =
               enterCreateDMP(called("createDMP", dmpId, <<dmp>>, DMP_LATEST_VERSION, TRUE),
                              dmp, DMP_LATEST_VERSION) ]
    /\ UNCHANGED <<table, now, ret, calls, replica>>

BeginUpdate(c) ==
    /\ running[c].pc = "idle"
    /\ \E dmpId \in DmpIds, dmp \in StepDocuments :
           running' = [ running EXCEPT ![c] =
               callGetDMPs(called("updateDMP", dmpId, <<dmp>>, DMP_LATEST_VERSION, TRUE),
                           DMP_LATEST_VERSION, TRUE, "updateDMP.latest") ]
    /\ UNCHANGED <<table, now, ret, calls, replica>>

BeginTombstone(c) ==
    /\ running[c].pc = "idle"
    /\ \E dmpId \in DmpIds :
           running' = [ running EXCEPT ![c] =
               callGetDMPs(called("tombstoneDMP", dmpId, <<>>, DMP_TOMBSTONE_VERSION, TRUE),
                           DMP_LATEST_VERSION, TRUE, "tombstoneDMP.latest") ]
    /\ UNCHANGED <<table, now, ret, calls, replica>>

BeginDelete(c) ==
    /\ running[c].pc = "idle"
    /\ \E dmpId \in DmpIds :
           running' = [ running EXCEPT ![c] =
               callGetDMPs(called("deleteDMP", dmpId, <<>>, DMP_LATEST_VERSION, TRUE),
                           DMP_LATEST_VERSION, TRUE, "deleteDMP.latest") ]
    /\ UNCHANGED <<table, now, ret, calls, replica>>

BeginGet(c) ==
    /\ running[c].pc = "idle"
    /\ \E dmpId \in DmpIds, version \in { "", DMP_LATEST_VERSION } :
           running' = [ running EXCEPT ![c] =
               callGetDMPs(called("getDMPs", dmpId, <<>>, version, TRUE),
                           version, TRUE, "getDMPs") ]
    /\ UNCHANGED <<table, now, ret, calls, replica>>

\* the command a call awaits is answered; the DeleteItemCommand of deleteDMP
\* has no answer but a rejection
Answer(c) ==
    /\ running[c].pc \in AwaitedCommands \ {"deleteItem"}
    /\ table' = tableAfter(running[c], table, now)
    /\ running' = [ running EXCEPT ![c] = answered(running[c], table', now) ]
    /\ UNCHANGED <<now, ret, calls, replica>>

\* the command a call awaits is rejected
Reject(c) ==
    /\ running[c].pc \in AwaitedCommands
    /\ \/ Cardinality({ d \in Callers : running[d].failed }) < MaxRejected
       \/ running[c].pc = "deleteItem"
    /\ running' = [ running EXCEPT ![c] = rejected(running[c], rejectionMessage(running[c].pc)) ]
    /\ UNCHANGED <<table, now, ret, calls, replica>>

\* the query of one callback of items.map is answered
ChainAnswer(c) ==
    /\ \E k \in 1..Len(running[c].chains) :
           /\ running[c].chains[k].pc \in { "getDMPExtensions", "getDMPVersions" }
           /\ running' = [ running EXCEPT ![c] =
                  promiseAll([ running[c] EXCEPT !.chains[k] =
                                   chainAnswered(running[c], running[c].chains[k], table) ],
                             now, k) ]
    /\ UNCHANGED <<table, now, ret, calls, replica>>

\* the query of one callback is rejected
ChainReject(c) ==
    /\ Cardinality({ d \in Callers : running[d].failed }) < MaxRejected
    /\ \E k \in 1..Len(running[c].chains) :
           /\ running[c].chains[k].pc \in { "getDMPExtensions", "getDMPVersions" }
           /\ running' = [ running EXCEPT ![c] = promiseAllRejected(running[c], k) ]
    /\ UNCHANGED <<table, now, ret, calls, replica>>

NextSteps ==
    \E c \in Callers :
        \/ BeginCreate(c)
        \/ BeginUpdate(c)
        \/ BeginTombstone(c)
        \/ BeginDelete(c)
        \/ BeginGet(c)
        \/ Answer(c)
        \/ Reject(c)
        \/ ChainAnswer(c)
        \/ ChainReject(c)

SpecSteps == InitSteps /\ [][NextSteps]_vars

----------------------------------------------------------------------------
(* Queries answered in pages.  A QueryCommand's answer holds the items up   *)
(* to the size limit of one page, ascending by sort key, and a              *)
(* LastEvaluatedKey when more remain; queryTable sends one command and      *)
(* returns its answer.  In this machine a page holds MaxPageItems items.    *)

MaxPageItems == 2

\* the Items of the answer to one QueryCommand with begins_with(SK, prefix)
queryFirstPage(t, pk, prefix) ==
    LET found == queryPrefix(t, pk, prefix)
        ascending == sortItems(found, [ i \in found |-> skRank(i.SK) ])
    IN  { ascending[k] : k \in 1..(IF Len(ascending) < MaxPageItems
                                    THEN Len(ascending) ELSE MaxPageItems) }

\* getDMPVersions over the answer of queryTable
getDMPVersionsPaged(t, dmpId) ==
    versionEntries(
        descendingModified({ i \in queryFirstPage(t, dmpIdToPK(dmpId), DMP_VERSION_PREFIX) :
                               has(i, "PK") /\ has(i, "SK") /\ has(i, "modified") }))

VersionsPaged(bound) ==
    /\ calls < bound
    /\ \E dmpId \in DmpIds :
           ret' = [ NoCall EXCEPT !.op = "getDMPVersions", !.dmpId = dmpId,
                                  !.value = getDMPVersionsPaged(table, dmpId) ]
    /\ calls' = calls + 1
    /\ UNCHANGED <<table, now, replica, running>>

\* a run of creates and updates, and then one list of the versions
NextPaged ==
    \/ Create(MaxCalls + 1)
    \/ Update(MaxCalls + 1)
    \/ VersionsPaged(MaxCalls + 2)
    \/ Tick

SpecPaged == Init /\ [][NextPaged]_vars

----------------------------------------------------------------------------
(* The store configured from the environment (src/src/rds.ts from line      *)
(* 1427): the same functions without the connection parameters; the grace   *)
(* period is read from VERSION_GRACE_PERIOD, a list here, empty when the     *)
(* variable is not set.                                                     *)

\* createDMP(dmpId, dmp, version, includeExtensions): DMPExists is asked
\* whatever the version
createDMPEnv(t, dmpId, dmp, version, includeExtensions) ==
    IF DMPExists(t, dmpId)
    THEN thrown(t, "Latest version already exists")
    ELSE returned(createDMPExtensions(
                      putVersionItem(t, dmpId, rdaCommonStandardOf(dmp), version),
                      dmpId, dmptoolExtensionOf(dmp), version),
                  dmpId, DMP_LATEST_VERSION, includeExtensions)

\* updateDMP(dmp, includeExtensions); an error of the snapshot's createDMP is
\* a DMPToolDynamoError and is thrown on as it is
updateDMPEnv(t, nowMs, dmpId, dmp, gracePeriodEnv, includeExtensions) ==
    LET latest == first(getDMPs(t, dmpId, DMP_LATEST_VERSION, TRUE))
    IN  IF cannotUpdate(latest, dmp)
        THEN thrown(t, "Cannot update a historical DMP")
        ELSE IF needToVersion(dmptoolExtensionOf(dmp), latest[1], nowMs,
                              gracePeriodInMSOf(gracePeriodEnv))
        THEN LET snapshot == createDMPEnv(t, dmpId, latest[1], latest[1].modified, TRUE)
             IN  IF snapshot.error # ""
                 THEN thrown(snapshot.table, snapshot.error)
                 ELSE returned(putLatest(snapshot.table, dmpId, dmp),
                               dmpId, DMP_LATEST_VERSION, includeExtensions)
        ELSE returned(putLatest(t, dmpId, dmp), dmpId, DMP_LATEST_VERSION, includeExtensions)

CreateEnv(bound) ==
    /\ calls < bound
    /\ \E dmpId \in DmpIds, dmp \in Documents, version \in CreateVersions :
           \E r \in { createDMPEnv(table, dmpId, dmp, version, TRUE) } :
               /\ table' = r.table
               /\ ret' = [ NoCall EXCEPT !.op = "createDMP", !.dmpId = dmpId,
                                         !.dmp = <<dmp>>, !.version = version,
                                         !.error = r.error, !.value = r.value ]
    /\ calls' = calls + 1
    /\ replica' = table'
    /\ UNCHANGED <<now, running>>

UpdateEnv(bound) ==
    /\ calls < bound
    /\ \E dmpId \in DmpIds, dmp \in Documents, gracePeriodEnv \in GracePeriodArgs :
           \E r \in { updateDMPEnv(table, now, dmpId, dmp, gracePeriodEnv, TRUE) } :
               /\ table' = r.table
               /\ ret' = [ NoCall EXCEPT !.op = "updateDMP", !.dmpId = dmpId,
                                         !.dmp = <<dmp>>, !.version = DMP_LATEST_VERSION,
                                         !.gracePeriodArg = gracePeriodEnv,
                                         !.error = r.error, !.value = r.value ]
    /\ calls' = calls + 1
    /\ replica' = table'
    /\ UNCHANGED <<now, running>>

NextEnv ==
    \/ CreateEnv(MaxCalls)
    \/ UpdateEnv(MaxCalls)
    \/ Tick

SpecEnv == Init /\ [][NextEnv]_vars

----------------------------------------------------------------------------
(* What a step of the machine shows of a call: the unprimed table is the    *)
(* table the call found, the primed table the one it left, and the primed   *)
(* ret its arguments and outcome.                                           *)

\* the step is a call of the operation
Called(op) == calls' = calls + 1 /\ ret'.op = op

\* the items of a version of the record in a table
versionItems(t, dmpId, version) == queryExact(t, dmpIdToPK(dmpId), versionToSK(version))

extensionItems(t, dmpId, version) ==
    queryExact(t, dmpIdToPK(dmpId), versionToExtensionSK(version))

\* the record's items under timestamp version tokens
snapshotItems(t, dmpId) ==
    UNION { versionItems(t, dmpId, v) \cup extensionItems(t, dmpId, v) : v \in Timestamps }

\* the latest the call found, as a list of at most one merged document
latestFound == first(getDMPs(table, ret'.dmpId, DMP_LATEST_VERSION, TRUE))

\* the document the call was given
incoming == ret'.dmp[1]

\* the call threw and wrote nothing
Failed == ret'.error # "" /\ table' = table

\* listVersions(id) is longer by n after the call
VersionsGrewBy(n) ==
    Len(getDMPVersions(table', ret'.dmpId)) = Len(getDMPVersions(table, ret'.dmpId)) + n

----------------------------------------------------------------------------
(* Stale writes *)

\* on an update that finds a latest, not tombstoned: the incoming modified is
\* older than, equal to, newer than the latest's
UpdateOfLive == Called("updateDMP") /\ latestFound # <<>> /\ ~has(latestFound[1], "tombstoned")

\* C1 as stated: an update is rejected whenever the incoming document's
\* modified is less than or equal to the current latest's modified.
C1_RejectsNotNewer ==
    [][ UpdateOfLive /\ ~StringGreater(incoming.modified, latestFound[1].modified)
            => Failed ]_vars

\* C1: an update is rejected whenever the incoming document's modified is
\* older than the current latest's modified, and is not rejected for its
\* modified when the two are equal or the incoming one is newer.
C1_RejectsOlder ==
    [][ UpdateOfLive
            => IF StringGreater(latestFound[1].modified, incoming.modified)
               THEN Failed /\ ret'.error = "Cannot update a historical DMP"
               ELSE ret'.error = "" ]_vars

\* an update was turned away for its modified alone: the latest is there, is
\* not tombstoned, and is newer than the document of the call
C1_StaleUpdateRejected ==
    /\ ret.op = "updateDMP"
    /\ ret.error = "Cannot update a historical DMP"
    /\ \E i \in versionItems(table, ret.dmpId, DMP_LATEST_VERSION) :
            StringGreater(i.modified, ret.dmp[1].modified)
    /\ \A e \in extensionItems(table, ret.dmpId, DMP_LATEST_VERSION) :
            ~has(e, "tombstoned")

----------------------------------------------------------------------------
(* History *)

\* C2: a snapshot item is never mutated: once an item is written under a
\* timestamp version token, no later create, update or tombstone call
\* changes it.
C2_SnapshotsImmutable ==
    [][ Called("createDMP") \/ Called("updateDMP") \/ Called("tombstoneDMP")
            => snapshotItems(table, ret'.dmpId) \subseteq table' ]_vars

\* C3: after a tombstone call, whatever is called next, the record has no
\* VERSION#latest and no EXTENSION#latest item while its tombstone item is
\* present.
C3_TombstoneIsTerminal ==
    \A dmpId \in DmpIds :
        versionItems(table, dmpId, DMP_TOMBSTONE_VERSION) # {}
            => /\ versionItems(table, dmpId, DMP_LATEST_VERSION) = {}
               /\ extensionItems(table, dmpId, DMP_LATEST_VERSION) = {}

\* the update went through
Updated == Called("updateDMP") /\ ret'.error = ""

\* the latest the update found is in the primed table under the version
\* token of its modified value
SnapshotStored ==
    /\ \E i \in versionItems(table', ret'.dmpId, latestFound[1].modified) :
           \E l \in versionItems(table, ret'.dmpId, DMP_LATEST_VERSION) :
              withoutKeys(i) = withoutKeys(l)
    /\ extensionItems(table', ret'.dmpId, latestFound[1].modified) # {}

\* C4: an update whose provenance differs from the latest's adds exactly one
\* snapshot, under the version token equal to the previous latest's modified,
\* and listVersions(id) is longer by exactly 1.
C4_ProvenanceChangeAddsOneSnapshot ==
    [][ Updated /\ incoming.provenance # latestFound[1].provenance
            => /\ SnapshotStored
               /\ Cardinality(snapshotItems(table', ret'.dmpId))
                     = Cardinality(snapshotItems(table, ret'.dmpId)) + 2
               /\ VersionsGrewBy(1) ]_vars

\* the grace period of the call as documented: the value the caller passed,
\* 7,200,000 ms when the caller passed none
statedGracePeriod == IF ret'.gracePeriodArg = <<>> THEN DEFAULT_GRACE_PERIOD
                     ELSE ret'.gracePeriodArg[1]

\* C5: with provenance unchanged, an update snapshots the latest if and only
\* if now minus the latest's modified is greater than the grace period (the
\* caller's value, or 7,200,000 ms); when no snapshot is due, listVersions(id)
\* keeps its length.
C5_GracePeriodDecidesSnapshot ==
    [][ Updated /\ incoming.provenance = latestFound[1].provenance
            => IF now - getTime(latestFound[1].modified) > statedGracePeriod
               THEN SnapshotStored
               ELSE VersionsGrewBy(0) /\ snapshotItems(table', ret'.dmpId)
                                           = snapshotItems(table, ret'.dmpId) ]_vars

----------------------------------------------------------------------------
(* Preconditions *)

\* C6: create(id, doc) called twice in succession for the same id fails the
\* second time with a conflict error, because a latest already exists.
C6_SecondCreateConflicts ==
    [][ ( /\ ret.op = "createDMP" /\ ret.version = DMP_LATEST_VERSION
          /\ Called("createDMP") /\ ret'.version = DMP_LATEST_VERSION
          /\ ret'.dmpId = ret.dmpId )
            => Failed /\ ret'.error = "Latest version already exists" ]_vars

\* the second of two calls, a create, found the latest of the first
C6_SecondCreateRejected ==
    /\ calls = 2
    /\ ret.op = "createDMP"
    /\ ret.error = "Latest version already exists"
    /\ versionItems(table, ret.dmpId, DMP_LATEST_VERSION) # {}

\* C7: createDMP does not allow a version to be created if it already
\* exists: called with a version token for which the record has an item, it
\* fails instead of writing.
C7_CreateRefusesExistingVersion ==
    [][ Called("createDMP") /\ versionItems(table, ret'.dmpId, ret'.version) # {}
            => Failed ]_vars

\* C8: update fails when the record has no latest item, and fails when the
\* latest is tombstoned.
C8_UpdateNeedsLiveLatest ==
    [][ ( /\ Called("updateDMP")
          /\ \/ versionItems(table, ret'.dmpId, DMP_LATEST_VERSION) = {}
             \/ \E e \in extensionItems(table, ret'.dmpId, DMP_LATEST_VERSION) :
                   has(e, "tombstoned") )
            => Failed ]_vars

\* an update was turned away from a latest that carries a tombstoned
\* timestamp, with a document no older than it
C8_UpdateOfTombstonedRejected ==
    /\ ret.op = "updateDMP"
    /\ ret.error = "Cannot update a historical DMP"
    /\ \E i \in versionItems(table, ret.dmpId, DMP_LATEST_VERSION) :
            ~StringGreater(i.modified, ret.dmp[1].modified)
    /\ \E e \in extensionItems(table, ret.dmpId, DMP_LATEST_VERSION) :
            has(e, "tombstoned")

\* the record has a latest whose extension carries a registered timestamp
RegisteredLatest(t, dmpId) ==
    /\ versionItems(t, dmpId, DMP_LATEST_VERSION) # {}
    /\ \E e \in extensionItems(t, dmpId, DMP_LATEST_VERSION) : has(e, "registered")

\* C9: tombstone(id) succeeds only when a latest exists and its extension
\* carries a registered timestamp; in every other case it fails.
C9_TombstoneNeedsRegisteredLatest ==
    [][ Called("tombstoneDMP")
            => IF RegisteredLatest(table, ret'.dmpId)
               THEN ret'.error = ""
               ELSE Failed ]_vars

\* a tombstone call went through and left the tombstone items
C9_Tombstoned ==
    /\ ret.op = "tombstoneDMP"
    /\ ret.error = ""
    /\ versionItems(table, ret.dmpId, DMP_TOMBSTONE_VERSION) # {}
    /\ \E e \in extensionItems(table, ret.dmpId, DMP_TOMBSTONE_VERSION) :
            has(e, "registered")

\* C10: delete(id) fails if the latest's extension has registered set;
\* otherwise it removes every stored item of the record, and a following
\* exists(id) is false.
C10_DeleteRemovesUnregistered ==
    [][ Called("deleteDMP") /\ versionItems(table, ret'.dmpId, DMP_LATEST_VERSION) # {}
            => IF RegisteredLatest(table, ret'.dmpId)
               THEN Failed
               ELSE /\ ret'.error = ""
                    /\ { i \in table' : i.PK = dmpIdToPK(ret'.dmpId) } = {}
                    /\ ~DMPExists(table', ret'.dmpId) ]_vars

----------------------------------------------------------------------------
(* Reads after writes *)

\* C11: after tombstone(id) succeeds, get(id, latest) finds nothing, and
\* get(id, tombstone) returns one merged document whose title is
\* "OBSOLETE: " followed by the title of the latest the call found and which
\* carries the tombstoned timestamp of its extension.
C11_TombstoneReadBack ==
    [][ Called("tombstoneDMP") /\ ret'.error = ""
            => /\ getDMPs(table', ret'.dmpId, DMP_LATEST_VERSION, TRUE) = <<>>
               /\ Len(getDMPs(table', ret'.dmpId, DMP_TOMBSTONE_VERSION, TRUE)) = 1
               /\ \A d \in { getDMPs(table', ret'.dmpId, DMP_TOMBSTONE_VERSION, TRUE)[1] } :
                    /\ d.title = "OBSOLETE: " \o latestFound[1].title
                    /\ has(d, "tombstoned")
               /\ \A e \in extensionItems(table', ret'.dmpId, DMP_TOMBSTONE_VERSION) :
                    has(e, "tombstoned") ]_vars

\* a tombstone call went through: the latest is gone and the tombstone reads
\* back with the prefixed title
C11_ObsoleteReadBack ==
    /\ ret.op = "tombstoneDMP"
    /\ ret.error = ""
    /\ getDMPs(table, ret.dmpId, DMP_LATEST_VERSION, TRUE) = <<>>
    /\ \E k \in DOMAIN getDMPs(table, ret.dmpId, DMP_TOMBSTONE_VERSION, TRUE) :
         getDMPs(table, ret.dmpId, DMP_TOMBSTONE_VERSION, TRUE)[k].title = "OBSOLETE: Test DMP"

\* C12: exists(id) is true exactly when a VERSION#latest core item is stored
\* for id; a record that has been tombstoned, one whose tombstone item is
\* stored, is reported as non-existent.
C12_ExistsProbesLatest ==
    \A dmpId \in DmpIds :
        /\ DMPExists(table, dmpId) <=> versionItems(table, dmpId, DMP_LATEST_VERSION) # {}
        /\ versionItems(table, dmpId, DMP_TOMBSTONE_VERSION) # {} => ~DMPExists(table, dmpId)

\* the step is an exists(id) that follows a successful create(id, doc)
ExistsFollowsCreate ==
    /\ ret.op = "createDMP" /\ ret.version = DMP_LATEST_VERSION /\ ret.error = ""
    /\ Called("DMPExists") /\ ret'.dmpId = ret.dmpId

\* C13 as stated: for every id, after create(id, doc) has completed
\* successfully, a following exists(id) returns true.
C13_ExistsAfterCreate ==
    [][ ExistsFollowsCreate => ret'.value[1].exists ]_vars

\* C13: for every id, after create(id, doc) has completed successfully, a
\* following exists(id) returns true when its query is answered from a
\* replica that has received the writes of the create.
C13_ExistsAfterCreateSeen ==
    [][ ExistsFollowsCreate /\ replica = table => ret'.value[1].exists ]_vars

\* an exists(id) answered from a replica that holds the latest item of the
\* create before it returned true
C13_CreatedAndFound ==
    /\ calls = 2
    /\ ret.op = "DMPExists"
    /\ ret.value[1].exists
    /\ replica = table
    /\ versionItems(table, ret.dmpId, DMP_LATEST_VERSION) # {}

----------------------------------------------------------------------------
(* The stored items *)

\* C14: at any time, each record has at most one core item with sort key
\* VERSION#latest and at most one extension item with sort key
\* EXTENSION#latest.
C14_OneLatest ==
    \A dmpId \in DmpIds :
        /\ Cardinality(versionItems(table, dmpId, DMP_LATEST_VERSION)) <= 1
        /\ Cardinality(extensionItems(table, dmpId, DMP_LATEST_VERSION)) <= 1

\* an update has overwritten the latest of a create with a document of
\* another provenance, and the record has one latest item of each kind
C14_LatestOverwritten ==
    /\ ret.op = "updateDMP"
    /\ ret.error = ""
    /\ Cardinality(versionItems(table, ret.dmpId, DMP_LATEST_VERSION)) = 1
    /\ Cardinality(extensionItems(table, ret.dmpId, DMP_LATEST_VERSION)) = 1
    /\ extensionItems(table, ret.dmpId, ret.dmp[1].modified) # {}
    /\ \A e \in extensionItems(table, ret.dmpId, ret.dmp[1].modified) :
           e.provenance # ret.dmp[1].provenance

----------------------------------------------------------------------------
(* Split and merge *)

\* C15: for any document, merging the core and extension parts produced by
\* splitting it gives a document equal to the original.
C15_SplitMergeRoundTrip ==
    ret.op = "split" => merge(ret.value[1], ret.value[2]) = ret.dmp[1]

\* a document with a field for each part was split, and merges back
C15_BothPartsMerged ==
    /\ ret.op = "split"
    /\ DOMAIN ret.value[1] # {}
    /\ DOMAIN ret.value[2] # {}
    /\ merge(ret.value[1], ret.value[2]) = ret.dmp[1]

\* the allow-list as documented
StatedAllowList ==
    { "provenance", "privacy", "status", "featured", "registered", "tombstoned",
      "narrative", "research_domain", "research_facility", "funding_opportunity",
      "funding_project", "version" }

\* the split puts the fields named in the list, and no others, in the
\* extension, the rest in the core, and no field in both
SplitsBy(list) ==
    ret.op = "split"
        => /\ DOMAIN ret.value[2] = (DOMAIN ret.dmp[1]) \cap list
           /\ DOMAIN ret.value[1] = (DOMAIN ret.dmp[1]) \ list
           /\ \A k \in DOMAIN ret.value[1] : ret.value[1][k] = ret.dmp[1][k]
           /\ \A k \in DOMAIN ret.value[2] : ret.value[2][k] = ret.dmp[1][k]

\* C16 as stated: split places a top-level field in the extension document
\* exactly when its name is one of provenance, privacy, status, featured,
\* registered, tombstoned, narrative, research_domain, research_facility,
\* funding_opportunity, funding_project, version; every other field goes to
\* the core document, and no field appears in both.
C16_SplitByStatedList == SplitsBy(StatedAllowList)

\* C16: split places a top-level field in the extension document exactly when
\* its name is one of the twelve above or rda_schema_version; every other
\* field goes to the core document, and no field appears in both.
C16_SplitByAllowList == SplitsBy(StatedAllowList \cup {"rda_schema_version"})

\* a document with rda_schema_version and a standard field was split: the
\* first is in the extension, the second in the core
C16_SchemaVersionInExtension ==
    /\ ret.op = "split"
    /\ "rda_schema_version" \in DOMAIN ret.value[2]
    /\ DOMAIN ret.value[1] # {}

----------------------------------------------------------------------------
(* The key codec *)

\* C17: for every record id, decoding the partition key computed from that id
\* yields the same id again.
C17_KeyRoundTrip ==
    ret.op = "dmpIdToPK" => ret.value[1].dmpId = ret.dmpId

----------------------------------------------------------------------------
(* The reads *)

\* the stored core items of the record the call was about
storedVersionItems == queryPrefix(table, dmpIdToPK(ret.dmpId), DMP_VERSION_PREFIX)

\* C18: getDMPVersions returns one entry for each stored VERSION# item of the
\* record (as many entries with a modified value as there are items with
\* it), ordered by modified descending.
C18_OneEntryPerVersionItem ==
    ret.op = "getDMPVersions"
        => /\ Len(ret.value) = Cardinality(storedVersionItems)
           /\ \A m \in Timestamps :
                  Cardinality({ k \in 1..Len(ret.value) : ret.value[k].modified = m })
                      = Cardinality({ i \in storedVersionItems : i.modified = m })
           /\ \A j, k \in 1..Len(ret.value) :
                  j < k => getTime(ret.value[j].modified) >= getTime(ret.value[k].modified)

\* the versions of a record with a snapshot were listed: two entries, the
\* later modified first
C18_TwoVersionsListed ==
    /\ ret.op = "getDMPVersions"
    /\ Len(ret.value) = 2
    /\ getTime(ret.value[1].modified) > getTime(ret.value[2].modified)
    /\ versionItems(table, ret.dmpId, DMP_LATEST_VERSION) # {}

\* the core items the call asked for: those of one version token, or all
askedVersionItems ==
    IF ret.version = "" THEN storedVersionItems
    ELSE versionItems(table, ret.dmpId, ret.version)

\* the stored extension items with the version token of a core item
sameTokenExtensions(item) ==
    UNION { extensionItems(table, ret.dmpId, v) :
              v \in { w \in VersionTokens : versionToSK(w) = item.SK } }

\* a document is a core item and an extension item put together without
\* their keys, the extension's value under every name the extension has,
\* and the version index under version
MergedFrom(doc, item, extension) ==
    /\ DOMAIN doc = ((DOMAIN item) \cup (DOMAIN extension) \cup {"version"}) \ {"PK", "SK"}
    /\ \A k \in (DOMAIN doc) \ {"version"} :
           doc[k] = IF k \in DOMAIN extension THEN extension[k] ELSE item[k]
    /\ doc.version = versionIndex(getDMPVersions(table, ret.dmpId), ret.dmpId)

\* a document is what a core item is returned as
ReturnedFor(doc, item) ==
    IF sameTokenExtensions(item) = {}
    THEN doc = withoutKeys(item)
    ELSE \E extension \in sameTokenExtensions(item) : MergedFrom(doc, item, extension)

\* C19: getDMPs with a version returns the item stored under exactly that
\* version token, and with no version every stored version; each returned
\* document is the core item merged with the extension item of the identical
\* version token (with the version index it is read with), the extension's
\* field winning on a key collision.
C19_GetReturnsMergedVersions ==
    (ret.op = "getDMPs" /\ ret.includeExtensions)
        => /\ Len(ret.value) = Cardinality(askedVersionItems)
           /\ \A item \in askedVersionItems :
                  \E k \in 1..Len(ret.value) : ReturnedFor(ret.value[k], item)

\* every version of a record with a snapshot was fetched, and the two
\* documents carry the provenance of their own extension items
C19_TwoVersionsFetched ==
    /\ ret.op = "getDMPs"
    /\ ret.includeExtensions
    /\ ret.version = ""
    /\ Len(ret.value) = 2
    /\ \A k \in 1..2 : "provenance" \in DOMAIN ret.value[k]
    /\ ret.value[1].provenance # ret.value[2].provenance

\* an index has one entry for each stored core item of the record, the later
\* modified first, and the query parameter on every entry but the first
IndexOfStoredVersions(index) ==
    /\ Len(index) = Cardinality(storedVersionItems)
    /\ \A m \in Timestamps :
           Cardinality({ k \in 1..Len(index) : index[k].version = m })
               = Cardinality({ i \in storedVersionItems : i.modified = m })
    /\ \A j, k \in 1..Len(index) :
           j < k => getTime(index[j].version) >= getTime(index[k].version)
    /\ \A k \in 1..Len(index) :
           (index[k].access_url = accessUrlOf(ret.dmpId, "")) <=> (k = 1)

\* C20: the version index attached to a document on read has one entry per
\* stored version, ordered newest-first, and only the newest entry's
\* access_url has no ?version= query-string suffix.
C20_VersionIndexOnRead ==
    ret.op = "getDMPs"
        => \A k \in 1..Len(ret.value) :
               "version" \in DOMAIN ret.value[k] => IndexOfStoredVersions(ret.value[k].version)

\* a document of a record with two stored versions was read: its index has
\* the bare address first and the address of the older version second
C20_TwoEntryIndexRead ==
    /\ ret.op = "getDMPs"
    /\ Len(ret.value) >= 1
    /\ "version" \in DOMAIN ret.value[1]
    /\ Len(ret.value[1].version) = 2
    /\ ret.value[1].version[1].access_url = accessUrlOf(ret.dmpId, "")
    /\ ret.value[1].version[2].access_url
           = accessUrlOf(ret.dmpId, ret.value[1].version[2].version)
    /\ getTime(ret.value[1].version[1].version) > getTime(ret.value[1].version[2].version)

----------------------------------------------------------------------------
(* What the store returns *)

\* C21: no document returned by get, create, update, tombstone or delete
\* carries a PK or SK attribute, whether includeExtensions is true or false.
C21_KeysRemovedOnReturn ==
    ret.op \in { "getDMPs", "createDMP", "updateDMP", "tombstoneDMP", "deleteDMP" }
        => \A k \in 1..Len(ret.value) :
               "PK" \notin DOMAIN ret.value[k] /\ "SK" \notin DOMAIN ret.value[k]

\* C22: when a version's core item exists but its extension item does not
\* (after create stopped between its two writes), getDMPs does not fail and
\* returns that version as a core-only document: the core item without keys.
C22_MissingExtensionTolerated ==
    (ret.op = "getDMPs" /\ ret.includeExtensions)
        => /\ ret.error = ""
           /\ Len(ret.value) = Cardinality(askedVersionItems)
           /\ \A item \in askedVersionItems :
                  sameTokenExtensions(item) = {}
                      => \E k \in 1..Len(ret.value) : ret.value[k] = withoutKeys(item)

\* the latest of a record whose create stopped was fetched: the core item is
\* stored, no extension item is, and the document is the core item alone
C22_CoreOnlyFetched ==
    /\ ret.op = "getDMPs"
    /\ ret.includeExtensions
    /\ ret.version = DMP_LATEST_VERSION
    /\ extensionItems(table, ret.dmpId, DMP_LATEST_VERSION) = {}
    /\ Len(ret.value) = 1
    /\ \E item \in versionItems(table, ret.dmpId, DMP_LATEST_VERSION) :
           ret.value[1] = withoutKeys(item)

----------------------------------------------------------------------------
(* Errors *)

\* why the call a record of ret tells of failed, read from the table the
\* failed call left as it found it
CauseOf(r, t) ==
    IF r.error = "" THEN "none"
    ELSE IF r.op = "createDMP" /\ r.error = "Latest version already exists"
    THEN "conflict"
    ELSE IF r.op = "updateDMP" /\ getDMPs(t, r.dmpId, DMP_LATEST_VERSION, TRUE) # <<>>
    THEN IF has(getDMPs(t, r.dmpId, DMP_LATEST_VERSION, TRUE)[1], "tombstoned")
         THEN "tombstoned"
         ELSE "stale write"
    ELSE IF r.op = "tombstoneDMP" /\ getDMPs(t, r.dmpId, DMP_LATEST_VERSION, TRUE) # <<>>
    THEN "not registered"
    ELSE IF r.op = "deleteDMP" /\ r.error = "Unable to delete id"
    THEN "backing store"
    ELSE "other"

FailureCauses == { "conflict", "stale write", "tombstoned", "not registered", "backing store" }

\* C23: conflict, stale-write, tombstoned and not-registered failures are each
\* reported as a distinct error type, distinct also from that of a
\* backing-store failure: two calls that fail one after the other for
\* different reasons throw errors of different types.
C23_FailuresHaveDistinctTypes ==
    [][ (/\ calls' = calls + 1
         /\ CauseOf(ret, table) \in FailureCauses
         /\ CauseOf(ret', table') \in FailureCauses
         /\ CauseOf(ret, table) # CauseOf(ret', table'))
            => DMPToolDynamoError(ret.error).name # DMPToolDynamoError(ret'.error).name ]_vars

----------------------------------------------------------------------------
(* Rejected commands *)

\* C24: when an adapter call fails inside an operation, the operation is not
\* retried and issues no further adapter calls, and the caller receives one
\* domain error wrapping the adapter failure: from the rejection on the call
\* is over, with its error, and the list of the commands it sent grows no more.
C24_NoCommandAfterRejection ==
    [][ \A c \in Callers :
            running[c].failed
                => /\ running[c].pc = "done"
                   /\ running[c].error # ""
                   /\ running'[c].error = running[c].error
                   /\ running'[c].sent = running[c].sent ]_vars

----------------------------------------------------------------------------
(* Store calls that go on together *)

\* the latest items of the record a call is about
latestVersionItems(t, proc) == versionItems(t, proc.dmpId, DMP_LATEST_VERSION)

latestExtensionItems(t, proc) == extensionItems(t, proc.dmpId, DMP_LATEST_VERSION)

\* caller c's command awaited at pc is answered in this step
Answered(c, pc) == running[c].pc = pc /\ running'[c].pc # pc /\ ~running'[c].failed

\* C25: of concurrent updateDMP calls the latest items that remain are those
\* written last: whenever a call's put of a latest item is answered, that
\* item is the latest stored, whatever the modified value of the item it
\* replaces.
C25_LastWriterWins ==
    [][ \A c \in Callers :
            /\ Answered(c, "putLatest")
                   => latestVersionItems(table', running[c])
                          = { versionItemOf(running[c], running[c].dmp[1], DMP_LATEST_VERSION) }
            /\ Answered(c, "updateDMPExtensions")
                   => latestExtensionItems(table', running[c])
                          = { extensionItemOf(running[c], running[c].dmp[1],
                                              DMP_LATEST_VERSION) } ]_vars

\* two updateDMP calls both passed the check and returned, and the latest
\* item that remains has the older modified value of the two documents
C25_BothUpdatedOlderRemains ==
    /\ \A c \in Callers : running[c].op = "updateDMP" /\ running[c].pc = "done"
                            /\ running[c].error = ""
    /\ \E c, d \in Callers :
           /\ getTime(running[d].dmp[1].modified) > getTime(running[c].dmp[1].modified)
           /\ latestVersionItems(table, running[c])
                  = { versionItemOf(running[c], running[c].dmp[1], DMP_LATEST_VERSION) }

\* caller c's call of op is over and none of its commands was rejected
Finished(c, op) == running[c].op = op /\ running[c].pc = "done" /\ ~running[c].failed

\* C26: of two concurrent createDMP calls for the same id and the latest
\* version, at most one succeeds; the other fails with the conflict error.
C26_OneCreateSucceeds ==
    \A c, d \in Callers :
        (c # d /\ Finished(c, "createDMP") /\ Finished(d, "createDMP")
             /\ running[c].dmpId = running[d].dmpId /\ running[c].error = "")
            => running[d].error = "Latest version already exists"

\* C27: for every interleaving of an updateDMP call and a tombstoneDMP call on
\* the same record, once both calls have finished the record does not hold
\* both a tombstone item and a latest item.
C27_TombstoneXorLatest ==
    \A c, d \in Callers :
        (Finished(c, "updateDMP") /\ Finished(d, "tombstoneDMP")
             /\ running[c].dmpId = running[d].dmpId)
            => ~(/\ versionItems(table, running[c].dmpId, DMP_TOMBSTONE_VERSION)
                        \cup extensionItems(table, running[c].dmpId, DMP_TOMBSTONE_VERSION) # {}
                 /\ versionItems(table, running[c].dmpId, DMP_LATEST_VERSION)
                        \cup extensionItems(table, running[c].dmpId, DMP_LATEST_VERSION) # {})

\* C28: after two concurrent updateDMP calls on the same record, the latest
\* core item and the latest extension item that remain come from the same
\* incoming document.
C28_LatestItemsOfOneDocument ==
    (/\ \A c \in Callers : Finished(c, "updateDMP") /\ running[c].error = ""
     /\ \A c, d \in Callers : running[c].dmpId = running[d].dmpId)
        => \E c \in Callers :
               /\ latestVersionItems(table, running[c])
                      = { versionItemOf(running[c], running[c].dmp[1], DMP_LATEST_VERSION) }
               /\ latestExtensionItems(table, running[c])
                      = { extensionItemOf(running[c], running[c].dmp[1], DMP_LATEST_VERSION) }

\* the updateDMP call of proc fetched a latest of which a version is needed
mustSnapshot(proc) ==
    /\ proc.op = "updateDMP"
    /\ proc.latest # <<>>
    /\ needToVersion(dmptoolExtensionOf(proc.dmp[1]), proc.latest[1], now,
                     gracePeriodOf(gracePeriodInMSOf(proc.gracePeriodArg)))

\* the k-th command of proc puts an item with sort key sk
putsAt(proc, k, sk) == proc.sent[k] = [ command |-> "PutItem", SK |-> sk ]

\* no other caller has put an item of version `version` of proc's record
onlyWriterOf(c, version) ==
    \A d \in Callers \ {c} :
        running[d].dmpId = running[c].dmpId
            => \A k \in 1..Len(running[d].sent) :
                   /\ ~putsAt(running[d], k, versionToSK(version))
                   /\ ~putsAt(running[d], k, versionToExtensionSK(version))

\* C29: when an updateDMP call must snapshot, the snapshot core item and then
\* the snapshot extension item are put before either latest item is put, so
\* from the put of a latest item on both snapshot items are stored under the
\* modified value of the latest the call fetched, with that latest's content
\* unless another call has written the same version.
C29_SnapshotBeforeLatest ==
    \A c \in Callers :
        mustSnapshot(running[c]) =>
            \A k \in 1..Len(running[c].sent) :
                (\/ putsAt(running[c], k, versionToSK(DMP_LATEST_VERSION))
                 \/ putsAt(running[c], k, versionToExtensionSK(DMP_LATEST_VERSION)))
                    => /\ \E i, j \in 1..(k - 1) :
                              /\ i < j
                              /\ putsAt(running[c], i,
                                        versionToSK(running[c].latest[1].modified))
                              /\ putsAt(running[c], j,
                                        versionToExtensionSK(running[c].latest[1].modified))
                       /\ versionItems(table, running[c].dmpId,
                                       running[c].latest[1].modified) # {}
                       /\ extensionItems(table, running[c].dmpId,
                                         running[c].latest[1].modified) # {}
                       /\ onlyWriterOf(c, running[c].latest[1].modified)
                              => /\ versionItemOf(running[c], running[c].latest[1],
                                                  running[c].latest[1].modified) \in table
                                 /\ extensionItemOf(running[c], running[c].latest[1],
                                                    running[c].latest[1].modified) \in table

\* an updateDMP call that had to snapshot returned: the latest is the
\* document it was given and the snapshot of the previous latest is stored
C29_UpdatedWithSnapshot ==
    \E c \in Callers :
        /\ mustSnapshot(running[c])
        /\ Finished(c, "updateDMP") /\ running[c].error = ""
        /\ latestVersionItems(table, running[c])
               = { versionItemOf(running[c], running[c].dmp[1], DMP_LATEST_VERSION) }
        /\ versionItemOf(running[c], running[c].latest[1],
                         running[c].latest[1].modified) \in table
        /\ extensionItemOf(running[c], running[c].latest[1],
                           running[c].latest[1].modified) \in table

\* the writes of tombstoneDMP, in the order of the code
tombstoneWritesInOrder ==
    << [ command |-> "PutItem", SK |-> versionToSK(DMP_TOMBSTONE_VERSION) ],
       [ command |-> "DeleteItem", SK |-> versionToSK(DMP_LATEST_VERSION) ],
       [ command |-> "PutItem", SK |-> versionToExtensionSK(DMP_TOMBSTONE_VERSION) ],
       [ command |-> "DeleteItem", SK |-> versionToExtensionSK(DMP_LATEST_VERSION) ] >>

\* the puts and deletes among the first k commands proc sent
writesSent(proc, k) ==
    SelectSeq(SubSeq(proc.sent, 1, k), LAMBDA s : s.command \in {"PutItem", "DeleteItem"})

\* the k-th command of proc is the read of the tombstone version
rereadsAt(proc, k) ==
    proc.sent[k] = [ command |-> "Query", SK |-> versionToSK(DMP_TOMBSTONE_VERSION) ]

\* C30: tombstoneDMP sends its writes in the order put tombstone core item,
\* delete latest core item, put tombstone extension item, delete latest
\* extension item, and it reads the tombstone record only after all four: the
\* tombstone items are then stored.
C30_TombstoneWriteOrder ==
    \A c \in Callers :
        running[c].op = "tombstoneDMP" =>
            /\ Len(writesSent(running[c], Len(running[c].sent))) <= 4
            /\ writesSent(running[c], Len(running[c].sent))
                   = SubSeq(tombstoneWritesInOrder, 1,
                            Len(writesSent(running[c], Len(running[c].sent))))
            /\ \A k \in 1..Len(running[c].sent) :
                   rereadsAt(running[c], k)
                       => /\ writesSent(running[c], k) = tombstoneWritesInOrder
                          /\ versionItems(table, running[c].dmpId, DMP_TOMBSTONE_VERSION) # {}
                          /\ extensionItems(table, running[c].dmpId, DMP_TOMBSTONE_VERSION) # {}

\* a tombstoneDMP call sent its four writes and the read after them, and
\* returned the tombstone
C30_TombstonedAndReread ==
    \E c \in Callers :
        /\ Finished(c, "tombstoneDMP") /\ running[c].error = ""
        /\ writesSent(running[c], Len(running[c].sent)) = tombstoneWritesInOrder
        /\ \E k \in 1..Len(running[c].sent) : rereadsAt(running[c], k)
        /\ running[c].value # <<>>

\* the i-th and the one after it of the writes w put the core item and then
\* the extension item of one version token
pairAt(proc, w, i) ==
    \E v \in {DMP_LATEST_VERSION, proc.createVersion} :
        /\ w[i] = [ command |-> "PutItem", SK |-> versionToSK(v) ]
        /\ i < Len(w) => w[i + 1] = [ command |-> "PutItem", SK |-> versionToExtensionSK(v) ]

\* C31: in createDMP and in updateDMP the core item of a version token is put
\* before the extension item of that token, and a read is sent after a put
\* only when both puts of the pair were sent: so is the read that gives the
\* return value.
C31_CoreBeforeExtension ==
    \A c \in Callers :
        running[c].op \in {"createDMP", "updateDMP"} =>
            /\ \A i \in 1..Len(writesSent(running[c], Len(running[c].sent))) :
                   i % 2 = 1 => pairAt(running[c],
                                       writesSent(running[c], Len(running[c].sent)), i)
            /\ \A k \in 1..Len(running[c].sent) :
                   running[c].sent[k].command = "Query"
                       => Len(writesSent(running[c], k)) % 2 = 0
            /\ (running[c].pc = "done" /\ running[c].value # <<>>)
                   => /\ Len(writesSent(running[c], Len(running[c].sent))) >= 2
                      /\ running[c].sent[Len(running[c].sent)].command = "Query"

\* a createDMP call and an updateDMP call that took a snapshot have both
\* returned a document
C31_CreatedAndUpdated ==
    \E c, d \in Callers :
        /\ Finished(c, "createDMP") /\ running[c].value # <<>>
        /\ Len(writesSent(running[c], Len(running[c].sent))) = 2
        /\ Finished(d, "updateDMP") /\ running[d].value # <<>>
        /\ Len(writesSent(running[d], Len(running[d].sent))) = 4

\* the number of puts and deletes of proc that were answered: of a call that
\* failed the last command sent is the one rejected
writesAnswered(proc) ==
    Len(writesSent(proc, Len(proc.sent) - (IF proc.failed THEN 1 ELSE 0)))

\* C32: when tombstoneDMP stops after any one of its four writes, calling
\* tombstoneDMP for the id again completes the transition: it leaves the
\* tombstone core and extension items and no latest item.
C32_TombstoneAgainCompletes ==
    \A c \in Callers :
        (/\ running[c].op = "tombstoneDMP" /\ running[c].failed
         /\ writesAnswered(running[c]) >= 1
         /\ \A d \in Callers \ {c} : running[d].pc = "idle")
            => /\ versionItems(tombstoneDMP(table, now, running[c].dmpId, TRUE).table,
                               running[c].dmpId, DMP_TOMBSTONE_VERSION) # {}
               /\ extensionItems(tombstoneDMP(table, now, running[c].dmpId, TRUE).table,
                                 running[c].dmpId, DMP_TOMBSTONE_VERSION) # {}
               /\ versionItems(tombstoneDMP(table, now, running[c].dmpId, TRUE).table,
                               running[c].dmpId, DMP_LATEST_VERSION) = {}
               /\ extensionItems(tombstoneDMP(table, now, running[c].dmpId, TRUE).table,
                                 running[c].dmpId, DMP_LATEST_VERSION) = {}

\* C33: createDMP(dmpId, dmp, version) returns the merged document read back
\* from the version it has just written, for the latest version and for a
\* timestamp version alike.
C33_CreateReturnsWrittenVersion ==
    (ret.op = "createDMP" /\ ret.error = "")
        => ret.value = first(getDMPs(table, ret.dmpId, ret.version, ret.includeExtensions))

\* a merged document without the list of versions, which every read derives
withoutVersionIndex(dmp) == pick(dmp, DOMAIN dmp \ {"version"})

\* C34: the snapshot an update writes holds the previous latest's content:
\* with T the modified value of the latest before the update, the document
\* read for version T after the update has the core and extension fields of
\* the latest read just before it, the list of versions apart.
C34_SnapshotHoldsPreviousLatest ==
    [][ (Updated /\ needToVersion(dmptoolExtensionOf(incoming), latestFound[1], now,
                                  gracePeriodOf(gracePeriodInMSOf(ret'.gracePeriodArg))))
            => \E s \in { first(getDMPs(table', ret'.dmpId, latestFound[1].modified, TRUE)) } :
                   /\ s # <<>>
                   /\ withoutVersionIndex(s[1]) = withoutVersionIndex(latestFound[1]) ]_vars

\* an update went through after a snapshot of a latest with another
\* provenance: the snapshot and the new latest are both read back
C34_SnapshotReadBack ==
    /\ ret.op = "updateDMP" /\ ret.error = ""
    /\ \E T \in ModifiedValues :
           \E s \in { first(getDMPs(table, ret.dmpId, T, TRUE)) } :
               /\ s # <<>>
               /\ s[1].provenance # ret.dmp[1].provenance
               /\ s[1].modified # ret.dmp[1].modified
    /\ first(getDMPs(table, ret.dmpId, DMP_LATEST_VERSION, TRUE)) = ret.value

\* the call of caller c ends in this step with an error of the store's own:
\* none of its commands was rejected
TurnedAway(c) ==
    /\ running[c].pc # "done"
    /\ running'[c].pc = "done"
    /\ running'[c].error # ""
    /\ ~running'[c].failed

\* C35: a createDMP, updateDMP, tombstoneDMP or deleteDMP call that is turned
\* away for a precondition (latest exists, stale or no or tombstoned latest,
\* registered or not registered) has sent no put and no delete, and the step
\* that turns it away leaves the table as it is.
C35_TurnedAwayWritesNothing ==
    [][ \A c \in Callers :
            TurnedAway(c)
                => /\ running'[c].op \in {"createDMP", "updateDMP", "tombstoneDMP", "deleteDMP"}
                   /\ writesSent(running'[c], Len(running'[c].sent)) = <<>>
                   /\ table' = table ]_vars

\* on a table with items, one call was turned away as a conflict or as a
\* stale update and another for the registered value of the latest
C35_TwoTurnedAway ==
    /\ table # {}
    /\ \E c, d \in Callers :
           /\ running[c].pc = "done" /\ ~running[c].failed
           /\ running[c].error \in {"Latest version already exists",
                                    "Cannot update a historical DMP"}
           /\ writesSent(running[c], Len(running[c].sent)) = <<>>
           /\ running[d].pc = "done" /\ ~running[d].failed
           /\ running[d].error
                  \in {"Unable to tombstone DMP because it is not registered/published",
                       "Unable to delete because it does not exist or is registered"}

\* C36: after any sequence of store calls made one at a time and run to their
\* end, every core item VERSION#v of a record has an extension item
\* EXTENSION#v with the same version token, and every extension item has its
\* core item.
C36_CoreAndExtensionPaired ==
    \A dmpId \in DmpIds, v \in VersionTokens :
        versionItems(table, dmpId, v) # {} <=> extensionItems(table, dmpId, v) # {}

\* a record with a latest pair and a snapshot pair of items
C36_LatestAndSnapshotPairs ==
    \E dmpId \in DmpIds, v \in Timestamps :
        /\ versionItems(table, dmpId, v) # {}
        /\ extensionItems(table, dmpId, v) # {}
        /\ versionItems(table, dmpId, DMP_LATEST_VERSION) # {}
        /\ extensionItems(table, dmpId, DMP_LATEST_VERSION) # {}
        /\ ret.op = "updateDMP"

LatestAndTombstoneSKs ==
    { versionToSK(DMP_LATEST_VERSION), versionToExtensionSK(DMP_LATEST_VERSION),
      versionToSK(DMP_TOMBSTONE_VERSION), versionToExtensionSK(DMP_TOMBSTONE_VERSION) }

\* C38: tombstoneDMP changes only the latest and the tombstone items of the
\* record: every timestamped snapshot item is left as it is, and the
\* snapshot is read for its version after the call with the fields it had
\* before, the derived list of versions apart.
C38_TombstoneKeepsSnapshots ==
    [][ Called("tombstoneDMP")
            => /\ \A i \in (table \ table') \cup (table' \ table) :
                      i.PK = dmpIdToPK(ret'.dmpId) /\ i.SK \in LatestAndTombstoneSKs
               /\ \A T \in Timestamps :
                      versionItems(table, ret'.dmpId, T) # {}
                          => \E s \in { getDMPs(table', ret'.dmpId, T, TRUE) } :
                                 /\ Len(s) = 1
                                 /\ Len(getDMPs(table, ret'.dmpId, T, TRUE)) = 1
                                 /\ withoutVersionIndex(s[1])
                                        = withoutVersionIndex(
                                              getDMPs(table, ret'.dmpId, T, TRUE)[1]) ]_vars

\* a record with a snapshot was tombstoned, and the snapshot is read back
C38_SnapshotOfTombstoned ==
    /\ ret.op = "tombstoneDMP" /\ ret.error = ""
    /\ versionItems(table, ret.dmpId, DMP_TOMBSTONE_VERSION) # {}
    /\ versionItems(table, ret.dmpId, DMP_LATEST_VERSION) = {}
    /\ \E T \in Timestamps : Len(getDMPs(table, ret.dmpId, T, TRUE)) = 1

\* C39: getDMPVersions returns an entry for every version item stored for
\* the record, also when the adapter answers the query in several pages.
C39_AllVersionsListed ==
    ret.op = "getDMPVersions"
        => Len(ret.value)
               = Cardinality(queryPrefix(table, dmpIdToPK(ret.dmpId), DMP_VERSION_PREFIX))

\* C40: in the store configured from the environment, an update whose
\* provenance differs from the latest's, or whose latest is older than the
\* grace period, goes through: the latest it found is stored under its
\* modified value and the latest is then the incoming document.
C40_EnvUpdateSnapshots ==
    [][ (/\ Called("updateDMP")
         /\ ~cannotUpdate(latestFound, incoming)
         /\ needToVersion(dmptoolExtensionOf(incoming), latestFound[1], now,
                          gracePeriodInMSOf(ret'.gracePeriodArg)))
            => /\ ret'.error = ""
               /\ versionItems(table', ret'.dmpId, latestFound[1].modified) # {}
               /\ \A n \in versionItems(table', ret'.dmpId, DMP_LATEST_VERSION) :
                      withoutKeys(n) = rdaCommonStandardOf(incoming) ]_vars

=============================================================================
